---- MODULE Spec2Model ----
(***************************************************************************)
(* pi-mono-mini: the Agent's run/steer/continue loop (core/agent.ts), the  *)
(* PendingWatcher (proactive/watcher.ts), the ProactiveAgent coordinator   *)
(* (proactive/index.ts), the Scheduler (proactive/scheduler.ts) and the    *)
(* SessionManager (chat/manager.ts), modelled as one state machine on a    *)
(* single cooperative event loop: every action is the synchronous code     *)
(* between two awaits.                                                     *)
(***************************************************************************)
EXTENDS Integers, Sequences, FiniteSets, TLC

\* ------------------------------------------------------------------ bounds
MaxIterations == 2      \* config.maxIterations of the modelled Agent
MaxEvents     == 6      \* inputs from the environment: calls, completion and tool settlements,
                        \* items written, injected I/O faults
MaxToolCalls  == 1      \* tool calls carried by one completion response
MaxItems      == 2      \* Pending Work Items written to the pending directory
MaxBatch      == 2      \* tool calls carried by one completion response (SpecTools)
MaxTasks      == 2      \* tasks created in the Scheduler
MaxOps        == 3      \* Scheduler calls and injected write failures
MaxTimeSteps  == 2      \* times the clock is advanced
MaxInFlight   == 2      \* checkTasks activations suspended at the same time
MaxProCalls   == 3      \* init()/start()/stop() calls on the ProactiveAgent
MaxSessions   == 2      \* session ids
MaxSessOps    == 5      \* SessionManager calls
MaxSends      == 2      \* sendMessage calls
MaxInterval   == 7      \* largest N of a "*/N" recurrence given to the evaluator

\* ------------------------------------------------------------------ data
ToolNames  == {"calc", "ghost"}     \* names a completion may request
InitTools  == {"calc"}              \* names registered at construction
NoRef      == <<>>

\* Message (types.ts): role, content identity (src, id), tool_calls (the
\* requested names, call i of assistant message a has id <<a, i>>),
\* tool_call_id (ref) and name of a tool result.
Msg(role, src, id, calls, ref, name) ==
    [role |-> role, src |-> src, id |-> id, calls |-> calls, ref |-> ref, name |-> name]

\* the system prompt lists the registered tools: id is their number
SystemMsg == Msg("system", "init", Cardinality(InitTools), <<>>, NoRef, "")
UserMsg(id) == Msg("user", "run", id, <<>>, NoRef, "")
SteerMsg(role, id) == Msg(role, "steer", id, <<>>, NoRef, "")
AssistantMsg(id, calls) == Msg("assistant", "llm", id, calls, NoRef, "")
ToolMsg(ref, name, kind) == Msg("tool", kind, 0, <<>>, ref, name)

SteerRoles == {"user", "assistant"}

\* toolCalls of one completion response: 1..MaxToolCalls requested names
CallSeqs == UNION {[1..n -> ToolNames] : n \in 1..MaxToolCalls}

\* toolCalls of a response carrying up to MaxBatch calls
BatchSeqs == UNION {[1..n -> ToolNames] : n \in 1..MaxBatch}

\* Callers of runLoop: run(), continue() called by the environment, or
\* continue() called by handlePendingTask for a pending item.
NoOwner == [kind |-> "none", item |-> 0]
RunOwner == [kind |-> "run", item |-> 0]
ContinueOwner == [kind |-> "continue", item |-> 0]
HandlerOwner(f) == [kind |-> "handler", item |-> f]

\* Settlement of a run()/continue() promise: n counts the settlements.
NoOutcome == [owner |-> NoOwner, kind |-> "none", val |-> 0, n |-> 0]

Items == 1..MaxItems
Sessions == 1..MaxSessions

VARIABLES
    messages,          \* Agent.messages
    steeringQueue,     \* Agent.steeringQueue
    isRunning,         \* Agent.isRunning
    tools,             \* Agent.tools (registered names)
    pendingToolCalls,  \* Agent.pendingToolCalls
    pc,                \* where the (single) runLoop activation is suspended
    iterations,        \* runLoop's local `iterations`
    respCalls,         \* runLoop's local response.toolCalls
    toolIdx,           \* index of the tool call being executed
    owner,             \* caller of the active runLoop activation
    waiting,           \* run() callers polling in the while(isRunning) loop
    polled,            \* run() callers that had to poll at least once
    runCalls, steerCalls, llmResponses,
    events,            \* inputs received from the environment so far
    lastOutcome,       \* settlement of the latest run/continue promise
    llmCallsThisLoop,  \* completion calls issued by the active activation
    steeredDuring,     \* ids steered while the active activation was running
    raisedAlreadyRunning, \* runLoop threw 'Agent is already running'
    llmFailed,         \* a completion call has rejected
    \* PendingWatcher and the pending directory
    pendingFiles,      \* items present in the pending directory
    itemsWritten,      \* items 1..itemsWritten have been written
    watcherArmed,      \* PendingWatcher.watcher is not null
    scanIntervals,     \* setInterval timers armed by start()
    notify,            \* items with a debounce timer of the change listener pending
    processing,        \* PendingWatcher.processing
    processed,         \* PendingWatcher.processed
    pfPc,              \* per item: where its processFile activation is suspended
    procPath,          \* per item: discovery path of that activation
    dupSkipped,        \* items another path found while being processed
    handlerCalls,      \* per item: onTask invocations
    handlerFailures,   \* per item: onTask rejections
    deleteAttempts,    \* per item: unlink calls
    errorEvents,       \* per item: 'error' events emitted
    processedEvents,   \* per item: 'processed' events emitted
    results,           \* per item: Task Results written by recordResult
    steeredFor,        \* per item: ids of the messages steered for it
    ioFaults,          \* items that met an injected I/O fault
    faults,            \* I/O faults injected so far
    toggles,           \* start()/stop() calls made so far
    \* Scheduler
    now,               \* Date.now(), in milliseconds
    timeSteps,         \* times the clock has been advanced
    tasks,             \* Scheduler.tasks, by id in insertion order
    created,           \* createTask calls so far (ids 1..created)
    checkInterval,     \* Scheduler.checkInterval is not null
    tickTimers,        \* setInterval timers of the Scheduler that are live
    armedAt,           \* clock when the tick timer was armed
    lastTickAt,        \* clock when the tick timer last fired (NoTime: never)
    ticks,             \* suspended checkTasks activations
    pendingSaves,      \* writes of createTask/toggleTask in flight
    taskStore,         \* the persisted task files, by id
    itemsFor,          \* per task: Pending Work Items written for it
    fired,             \* per task: triggerTask invocations
    toggledOff,        \* tasks whose toggleTask(id, false) has completed
    schedFaults,       \* write failures injected into the Scheduler
    schedOps,          \* Scheduler calls and failures so far
    pendingUnlinks,    \* task ids whose deleteTask is suspended on unlink
    deleted,           \* per task id: "no", or how its deleteTask call resolved:
                       \* "nofile" (no task file found) or "unlinked"
    \* ProactiveAgent
    autoStart,         \* config.autoStart
    proIsRunning,      \* ProactiveAgent.isRunning
    proInited,         \* init() has resolved
    proStarts,         \* start() calls made by the environment
    proCalls,          \* init()/start()/stop() calls so far
    \* SessionManager
    sessStatus,        \* per session id: its status, or "none" (never created) or
                       \* "gone" (deleted) when it is not in the map
    sessAgents,        \* keys of SessionManager.agents
    activeSessionId,   \* SessionManager.activeSessionId (0: undefined)
    sessMessages,      \* per session: roles of session.messages
    closing,           \* sessions whose deleteSession is suspended on closeSession
    sends,             \* sendMessage calls, in call order
    errorListener,     \* a listener for 'error' is registered on the manager
    sessOps            \* SessionManager calls so far

agentVars == <<messages, steeringQueue, isRunning, tools, pendingToolCalls, pc,
               iterations, respCalls, toolIdx, owner, waiting, polled, runCalls,
               steerCalls, llmResponses, events, lastOutcome,
               llmCallsThisLoop, steeredDuring, raisedAlreadyRunning, llmFailed>>

watcherVars == <<pendingFiles, itemsWritten, watcherArmed, scanIntervals, notify,
                 processing, processed, pfPc, procPath, dupSkipped, handlerCalls,
                 handlerFailures, deleteAttempts, errorEvents, processedEvents,
                 results, steeredFor, ioFaults, faults, toggles>>

schedVars == <<now, timeSteps, tasks, created, checkInterval, tickTimers, armedAt,
               lastTickAt,
               ticks, pendingSaves, taskStore, itemsFor, fired, toggledOff,
               schedFaults, schedOps>>

delVars == <<pendingUnlinks, deleted>>

coordVars == <<autoStart, proIsRunning, proInited, proStarts, proCalls>>

sessVars == <<sessStatus, sessAgents, activeSessionId, sessMessages, closing, sends,
              errorListener, sessOps>>

extVars == <<delVars, coordVars, sessVars>>

vars == <<agentVars, watcherVars, schedVars, extVars>>

\* Inputs the environment has given so far: calls and settlements (events),
\* injected faults, Watcher start/stop calls, items written.
Inputs == events + faults + toggles + itemsWritten

\* ------------------------------------------------------------------ Agent
Last(s) == s[Len(s)]

Outcome(own, kind, val) ==
    [owner |-> own, kind |-> kind, val |-> val, n |-> lastOutcome.n + 1]

callVars == <<pendingToolCalls, respCalls, toolIdx>>
pollVars == <<waiting, polled>>
idVars   == <<runCalls, steerCalls, llmResponses>>

\* Variants of LoopTop with one slip each: the newest queued message taken
\* first, the steering check skipped, the iteration bound off by one.
RECURSIVE LoopTopLifo(_, _, _)
LoopTopLifo(msgs, q, it) ==
    IF it >= MaxIterations
    THEN [msgs |-> msgs, q |-> q, it |-> it, next |-> "maxiter", val |-> 0]
    ELSE LET popped == q # <<>>
             m1 == IF popped THEN Append(msgs, Last(q)) ELSE msgs
             q1 == IF popped THEN SubSeq(q, 1, Len(q) - 1) ELSE q
             lastRole == IF Len(m1) > 0 THEN Last(m1).role ELSE "none"
         IN  IF lastRole = "assistant"
             THEN IF q1 = <<>>
                  THEN [msgs |-> m1, q |-> q1, it |-> it + 1, next |-> "return",
                        val |-> Last(m1).id]
                  ELSE LoopTopLifo(m1, q1, it + 1)
             ELSE [msgs |-> m1, q |-> q1, it |-> it + 1, next |-> "llm", val |-> 0]

LoopTopNoPop(msgs, q, it) ==
    IF it >= MaxIterations
    THEN [msgs |-> msgs, q |-> q, it |-> it, next |-> "maxiter", val |-> 0]
    ELSE IF Last(msgs).role = "assistant" /\ q = <<>>
         THEN [msgs |-> msgs, q |-> q, it |-> it + 1, next |-> "return",
               val |-> Last(msgs).id]
         ELSE [msgs |-> msgs, q |-> q, it |-> it + 1, next |-> "llm", val |-> 0]

RECURSIVE LoopTopOffByOne(_, _, _)
LoopTopOffByOne(msgs, q, it) ==
    IF it > MaxIterations
    THEN [msgs |-> msgs, q |-> q, it |-> it, next |-> "maxiter", val |-> 0]
    ELSE LET popped == q # <<>>
             m1 == IF popped THEN Append(msgs, Head(q)) ELSE msgs
             q1 == IF popped THEN Tail(q) ELSE q
             lastRole == IF Len(m1) > 0 THEN Last(m1).role ELSE "none"
         IN  IF lastRole = "assistant"
             THEN IF q1 = <<>>
                  THEN [msgs |-> m1, q |-> q1, it |-> it + 1, next |-> "return",
                        val |-> Last(m1).id]
                  ELSE LoopTopOffByOne(m1, q1, it + 1)
             ELSE [msgs |-> m1, q |-> q1, it |-> it + 1, next |-> "llm", val |-> 0]

\* A loop head without the last-role check: it always goes on to a
\* completion call.
LoopTopNoIdlePoint(msgs, q, it) ==
    IF it >= MaxIterations
    THEN [msgs |-> msgs, q |-> q, it |-> it, next |-> "maxiter", val |-> 0]
    ELSE LET popped == q # <<>>
             m1 == IF popped THEN Append(msgs, Head(q)) ELSE msgs
             q1 == IF popped THEN Tail(q) ELSE q
         IN  [msgs |-> m1, q |-> q1, it |-> it + 1, next |-> "llm", val |-> 0]

\* runLoop, from the head of the while loop to the next await, return or
\* throw: the steering check, the last-role check, and `continue` back to
\* the loop head.
RECURSIVE LoopTop(_, _, _)
LoopTop(msgs, q, it) ==
    IF it >= MaxIterations
    THEN [msgs |-> msgs, q |-> q, it |-> it, next |-> "maxiter", val |-> 0]
    ELSE LET popped == q # <<>>
             m1 == IF popped THEN Append(msgs, Head(q)) ELSE msgs
             q1 == IF popped THEN Tail(q) ELSE q
             lastRole == IF Len(m1) > 0 THEN Last(m1).role ELSE "none"
         IN  IF lastRole = "assistant"
             THEN IF q1 = <<>>
                  THEN [msgs |-> m1, q |-> q1, it |-> it + 1, next |-> "return",
                        val |-> Last(m1).id]
                  ELSE LoopTop(m1, q1, it + 1)
             ELSE [msgs |-> m1, q |-> q1, it |-> it + 1, next |-> "llm", val |-> 0]

\* The state the activation of `own` is in after the synchronous segment r.
Advance(r, own, calls) ==
    /\ messages' = r.msgs
    /\ steeringQueue' = r.q
    /\ iterations' = r.it
    /\ CASE r.next = "llm" ->
              /\ pc' = "llm"
              /\ isRunning' = TRUE
              /\ owner' = own
              /\ llmCallsThisLoop' = calls + 1
              /\ UNCHANGED lastOutcome
         [] r.next = "return" ->
              /\ pc' = "idle"
              /\ isRunning' = FALSE
              /\ owner' = NoOwner
              /\ llmCallsThisLoop' = calls
              /\ lastOutcome' = Outcome(own, "returned", r.val)
         [] r.next = "maxiter" ->
              /\ pc' = "idle"
              /\ isRunning' = FALSE
              /\ owner' = NoOwner
              /\ llmCallsThisLoop' = calls
              /\ lastOutcome' = Outcome(own, "maxIterations", 0)

\* runLoop entry with log msgs and steering queue q: the isRunning check,
\* then the first synchronous segment.
EnterLoop(msgs, q, own) ==
    IF isRunning
    THEN /\ messages' = msgs
         /\ steeringQueue' = q
         /\ raisedAlreadyRunning' = TRUE
         /\ lastOutcome' = Outcome(own, "alreadyRunning", 0)
         /\ UNCHANGED <<isRunning, pc, iterations, owner, llmCallsThisLoop>>
    ELSE /\ Advance(LoopTop(msgs, q, 0), own, 0)
         /\ UNCHANGED raisedAlreadyRunning

\* A run() that does not wait for the Agent to be idle.
WaitOverAlways(running) == TRUE

\* run(): the condition under which the while(isRunning) poll is left.
WaitOver(running) == ~running

\* run(userInput) is called.
RunCall ==
    /\ Inputs < MaxEvents
    /\ events' = events + 1
    /\ runCalls' = runCalls + 1
    /\ IF WaitOver(isRunning)
       THEN /\ EnterLoop(Append(messages, UserMsg(runCalls + 1)), steeringQueue, RunOwner)
            /\ steeredDuring' = {}
            /\ UNCHANGED pollVars
       ELSE /\ waiting' = waiting \cup {runCalls + 1}
            /\ polled' = polled \cup {runCalls + 1}
            /\ UNCHANGED <<messages, steeringQueue, isRunning, pc, iterations, owner,
                           lastOutcome, llmCallsThisLoop, steeredDuring,
                           raisedAlreadyRunning>>
    /\ UNCHANGED <<tools, callVars, steerCalls, llmResponses, llmFailed, watcherVars>>
    /\ UNCHANGED <<schedVars, extVars>>

\* The 100 ms timer of a polling run() caller fires and finds the Agent idle.
RunPoll(u) ==
    /\ u \in waiting
    /\ WaitOver(isRunning)
    /\ waiting' = waiting \ {u}
    /\ EnterLoop(Append(messages, UserMsg(u)), steeringQueue, RunOwner)
    /\ steeredDuring' = {}
    /\ UNCHANGED <<tools, callVars, polled, idVars, events, llmFailed, watcherVars>>
    /\ UNCHANGED <<schedVars, extVars>>

\* A steer that writes to the log itself when the Agent is idle.
SteerToLog(role) ==
    /\ Inputs < MaxEvents
    /\ events' = events + 1
    /\ steerCalls' = steerCalls + 1
    /\ IF isRunning
       THEN /\ steeringQueue' = Append(steeringQueue, SteerMsg(role, steerCalls + 1))
            /\ steeredDuring' = steeredDuring \cup {steerCalls + 1}
            /\ UNCHANGED messages
       ELSE /\ messages' = Append(messages, SteerMsg(role, steerCalls + 1))
            /\ UNCHANGED <<steeringQueue, steeredDuring>>
    /\ UNCHANGED <<isRunning, tools, callVars, pc, iterations, owner,
                   pollVars, runCalls, llmResponses, lastOutcome, llmCallsThisLoop,
                   raisedAlreadyRunning, llmFailed, watcherVars>>
    /\ UNCHANGED <<schedVars, extVars>>

\* steer(message)
Steer(role) ==
    /\ Inputs < MaxEvents
    /\ events' = events + 1
    /\ steerCalls' = steerCalls + 1
    /\ steeringQueue' = Append(steeringQueue, SteerMsg(role, steerCalls + 1))
    /\ steeredDuring' = IF isRunning THEN steeredDuring \cup {steerCalls + 1}
                        ELSE steeredDuring
    /\ UNCHANGED <<messages, isRunning, tools, callVars, pc, iterations, owner,
                   pollVars, runCalls, llmResponses, lastOutcome, llmCallsThisLoop,
                   raisedAlreadyRunning, llmFailed, watcherVars>>
    /\ UNCHANGED <<schedVars, extVars>>

\* A continue() without its isRunning check.
ContinueNeverNoop(running) == FALSE

\* continue(): TRUE when the call returns '' instead of entering the loop.
ContinueIsNoop(running) == running

\* continue() is called by the environment.
ContinueCall ==
    /\ Inputs < MaxEvents
    /\ events' = events + 1
    /\ IF ContinueIsNoop(isRunning)
       THEN /\ lastOutcome' = Outcome(ContinueOwner, "empty", 0)
            /\ UNCHANGED <<messages, steeringQueue, isRunning, pc, iterations, owner,
                           llmCallsThisLoop, steeredDuring, raisedAlreadyRunning>>
       ELSE /\ EnterLoop(messages, steeringQueue, ContinueOwner)
            /\ steeredDuring' = IF isRunning THEN steeredDuring ELSE {}
    /\ UNCHANGED <<tools, callVars, pollVars, idVars, llmFailed, watcherVars>>
    /\ UNCHANGED <<schedVars, extVars>>

\* A clear that also ends the running state.
ClearStopsLoop ==
    /\ Inputs < MaxEvents
    /\ events' = events + 1
    /\ messages' = IF Len(messages) > 0 THEN <<messages[1]>> ELSE <<>>
    /\ steeringQueue' = <<>>
    /\ isRunning' = FALSE
    /\ UNCHANGED <<tools, callVars, pc, iterations, owner, pollVars, idVars,
                   lastOutcome, llmCallsThisLoop, steeredDuring, raisedAlreadyRunning,
                   llmFailed, watcherVars>>
    /\ UNCHANGED <<schedVars, extVars>>

\* clear()
Clear ==
    /\ Inputs < MaxEvents
    /\ events' = events + 1
    /\ messages' = IF Len(messages) > 0 THEN <<messages[1]>> ELSE <<>>
    /\ steeringQueue' = <<>>
    /\ UNCHANGED <<isRunning, tools, callVars, pc, iterations, owner, pollVars, idVars,
                   lastOutcome, llmCallsThisLoop, steeredDuring, raisedAlreadyRunning,
                   llmFailed, watcherVars>>
    /\ UNCHANGED <<schedVars, extVars>>

\* registerTool(tool): the registry entry is set and the tool listing of the
\* system prompt regenerated in place.
RegisterTool(name) ==
    /\ Inputs < MaxEvents
    /\ events' = events + 1
    /\ tools' = tools \cup {name}
    /\ messages' = IF Len(messages) > 0 /\ messages[1].role = "system"
                   THEN [messages EXCEPT ![1].id = Cardinality(tools \cup {name})]
                   ELSE messages
    /\ UNCHANGED <<steeringQueue, isRunning, callVars, pc, iterations, owner, pollVars,
                   idVars, lastOutcome, llmCallsThisLoop, steeredDuring,
                   raisedAlreadyRunning, llmFailed, watcherVars>>
    /\ UNCHANGED <<schedVars, extVars>>

\* A catch block that swallows every error.
ErrorAlwaysSilent(code) == TRUE

\* A catch block that takes no error for 'already processed'.
ErrorNeverSilent(code) == FALSE

\* processFile's catch block: TRUE when the error is swallowed and the item
\* marked processed, FALSE when it is logged and emitted as 'error'.
ErrorIsSilent(code) == code = "ENOENT"

\* processFile's catch and finally blocks for item f and an error with `code`.
Catch(f, code) ==
    /\ IF ErrorIsSilent(code)
       THEN /\ processed' = processed \cup {f}
            /\ UNCHANGED errorEvents
       ELSE /\ errorEvents' = [errorEvents EXCEPT ![f] = @ + 1]
            /\ UNCHANGED processed
    /\ processing' = processing \ {f}
    /\ pfPc' = [pfPc EXCEPT ![f] = "idle"]

\* A handler that goes on to recordResult whether continue() resolved or
\* rejected.
OnSettleIgnoresThrow(own, ok) ==
    IF own.kind = "handler"
    THEN /\ pfPc' = [pfPc EXCEPT ![own.item] = "record"]
         /\ UNCHANGED <<pendingFiles, itemsWritten, watcherArmed, scanIntervals,
                        notify, processing, processed, procPath, dupSkipped,
                        handlerCalls, handlerFailures, deleteAttempts,
                        errorEvents, processedEvents, results, steeredFor,
                        ioFaults, faults, toggles>>
    ELSE UNCHANGED watcherVars

\* The promise of the active runLoop activation settles: when its caller is
\* handlePendingTask, the handler goes on to recordResult (ok) or rejects,
\* which processFile catches (the Error of runLoop carries no code).
OnSettle(own, ok) ==
    IF own.kind = "handler"
    THEN IF ok
         THEN /\ pfPc' = [pfPc EXCEPT ![own.item] = "record"]
              /\ UNCHANGED <<pendingFiles, itemsWritten, watcherArmed, scanIntervals,
                             notify, processing, processed, procPath, dupSkipped,
                             handlerCalls, handlerFailures, deleteAttempts,
                             errorEvents, processedEvents, results, steeredFor,
                             ioFaults, faults, toggles>>
         ELSE /\ handlerFailures' = [handlerFailures EXCEPT ![own.item] = @ + 1]
              /\ Catch(own.item, "none")
              /\ UNCHANGED <<pendingFiles, itemsWritten, watcherArmed, scanIntervals,
                             notify, procPath, dupSkipped, handlerCalls,
                             deleteAttempts, processedEvents, results, steeredFor,
                             ioFaults, faults, toggles>>
    ELSE UNCHANGED watcherVars

\* A failing completion call whose catch block forgets to reset isRunning.
LLMFailsStuck ==
    /\ pc = "llm"
    /\ Inputs < MaxEvents
    /\ events' = events + 1
    /\ pc' = "idle"
    /\ owner' = NoOwner
    /\ llmFailed' = TRUE
    /\ lastOutcome' = Outcome(owner, "llmError", 0)
    /\ OnSettle(owner, FALSE)
    /\ UNCHANGED <<messages, steeringQueue, isRunning, tools, callVars, iterations,
                   pollVars, idVars, llmCallsThisLoop, steeredDuring,
                   raisedAlreadyRunning>>
    /\ UNCHANGED <<schedVars, extVars>>

\* The completion call rejects: the catch block resets isRunning and rethrows.
LLMFails ==
    /\ pc = "llm"
    /\ Inputs < MaxEvents
    /\ events' = events + 1
    /\ pc' = "idle"
    /\ isRunning' = FALSE
    /\ owner' = NoOwner
    /\ llmFailed' = TRUE
    /\ lastOutcome' = Outcome(owner, "llmError", 0)
    /\ OnSettle(owner, FALSE)
    /\ UNCHANGED <<messages, steeringQueue, tools, callVars, iterations, pollVars,
                   idVars, llmCallsThisLoop, steeredDuring, raisedAlreadyRunning>>
    /\ UNCHANGED <<schedVars, extVars>>

\* A final answer that is returned without being appended to the log.
LLMFinalNoAppend ==
    /\ pc = "llm"
    /\ Inputs < MaxEvents
    /\ events' = events + 1
    /\ llmResponses' = llmResponses + 1
    /\ pc' = "idle"
    /\ isRunning' = FALSE
    /\ owner' = NoOwner
    /\ lastOutcome' = Outcome(owner, "returned", llmResponses + 1)
    /\ OnSettle(owner, TRUE)
    /\ UNCHANGED <<messages, steeringQueue, tools, callVars, iterations, pollVars,
                   runCalls, steerCalls, llmCallsThisLoop, steeredDuring,
                   raisedAlreadyRunning, llmFailed>>
    /\ UNCHANGED <<schedVars, extVars>>

\* The completion call resolves without tool calls: the final answer.
LLMFinal ==
    /\ pc = "llm"
    /\ Inputs < MaxEvents
    /\ events' = events + 1
    /\ llmResponses' = llmResponses + 1
    /\ messages' = Append(messages, AssistantMsg(llmResponses + 1, <<>>))
    /\ pc' = "idle"
    /\ isRunning' = FALSE
    /\ owner' = NoOwner
    /\ lastOutcome' = Outcome(owner, "returned", llmResponses + 1)
    /\ OnSettle(owner, TRUE)
    /\ UNCHANGED <<steeringQueue, tools, callVars, iterations, pollVars, runCalls,
                   steerCalls, llmCallsThisLoop, steeredDuring, raisedAlreadyRunning,
                   llmFailed>>
    /\ UNCHANGED <<schedVars, extVars>>

\* executeTool(call i of assistant message aid), up to its await or return:
\* an unregistered name gets its error result at once.
StartTool(msgs, aid, calls, i) ==
    IF calls[i] \in tools
    THEN /\ messages' = msgs
         /\ pc' = "tool"
    ELSE /\ messages' = Append(msgs, ToolMsg(<<aid, i>>, calls[i], "notFound"))
         /\ pc' = "toolDone"

\* The completion call resolves with tool calls.
LLMToolCalls(calls) ==
    /\ pc = "llm"
    /\ Inputs < MaxEvents
    /\ events' = events + 1
    /\ llmResponses' = llmResponses + 1
    /\ pendingToolCalls' = calls
    /\ respCalls' = [aid |-> llmResponses + 1, calls |-> calls]
    /\ toolIdx' = 1
    /\ StartTool(Append(messages, AssistantMsg(llmResponses + 1, calls)),
                 llmResponses + 1, calls, 1)
    /\ UNCHANGED <<steeringQueue, isRunning, tools, iterations, owner, pollVars,
                   runCalls, steerCalls, lastOutcome, llmCallsThisLoop, steeredDuring,
                   raisedAlreadyRunning, llmFailed, watcherVars>>
    /\ UNCHANGED <<schedVars, extVars>>

\* An executeTool without its try/catch: a rejection of tool.execute reaches
\* runLoop's catch block.
ToolSettlesThrows(kind) ==
    /\ pc = "tool"
    /\ Inputs < MaxEvents
    /\ events' = events + 1
    /\ IF kind = "error"
       THEN /\ pc' = "idle"
            /\ isRunning' = FALSE
            /\ owner' = NoOwner
            /\ lastOutcome' = Outcome(owner, "toolError", 0)
            /\ OnSettle(owner, FALSE)
            /\ UNCHANGED messages
       ELSE /\ messages' = Append(messages, ToolMsg(<<respCalls.aid, toolIdx>>,
                                                    respCalls.calls[toolIdx], kind))
            /\ pc' = "toolDone"
            /\ UNCHANGED <<isRunning, owner, lastOutcome, watcherVars>>
    /\ UNCHANGED <<steeringQueue, tools, callVars, iterations, pollVars, idVars,
                   llmCallsThisLoop, steeredDuring, raisedAlreadyRunning, llmFailed>>
    /\ UNCHANGED <<schedVars, extVars>>

\* tool.execute settles (kind "result" on resolve, "error" on reject).
ToolSettles(kind) ==
    /\ pc = "tool"
    /\ Inputs < MaxEvents
    /\ events' = events + 1
    /\ messages' = Append(messages,
                          ToolMsg(<<respCalls.aid, toolIdx>>, respCalls.calls[toolIdx], kind))
    /\ pc' = "toolDone"
    /\ UNCHANGED <<steeringQueue, isRunning, tools, callVars, iterations, owner,
                   pollVars, idVars, lastOutcome, llmCallsThisLoop, steeredDuring,
                   raisedAlreadyRunning, llmFailed, watcherVars>>
    /\ UNCHANGED <<schedVars, extVars>>

\* A for loop over the tool calls that checks the steering queue between two
\* calls.
ToolLoopNextChecksQueue ==
    /\ pc = "toolDone"
    /\ IF toolIdx < Len(respCalls.calls)
       THEN LET popped == steeringQueue # <<>>
                m1 == IF popped THEN Append(messages, Head(steeringQueue)) ELSE messages
                q1 == IF popped THEN Tail(steeringQueue) ELSE steeringQueue
            IN  /\ toolIdx' = toolIdx + 1
                /\ steeringQueue' = q1
                /\ StartTool(m1, respCalls.aid, respCalls.calls, toolIdx + 1)
                /\ UNCHANGED <<isRunning, pendingToolCalls, iterations,
                               owner, lastOutcome, llmCallsThisLoop, watcherVars>>
       ELSE LET r == LoopTop(messages, steeringQueue, iterations)
            IN  /\ pendingToolCalls' = <<>>
                /\ Advance(r, owner, llmCallsThisLoop)
                /\ IF r.next = "llm" THEN UNCHANGED watcherVars
                   ELSE OnSettle(owner, r.next = "return")
                /\ UNCHANGED toolIdx
    /\ UNCHANGED <<tools, respCalls, pollVars, idVars, events, steeredDuring,
                   raisedAlreadyRunning, llmFailed>>
    /\ UNCHANGED <<schedVars, extVars>>

\* `await this.executeTool(toolCall)` resumes: the next call of the response,
\* or the end of the for loop and `continue` to the loop head.
ToolLoopNext ==
    /\ pc = "toolDone"
    /\ IF toolIdx < Len(respCalls.calls)
       THEN /\ toolIdx' = toolIdx + 1
            /\ StartTool(messages, respCalls.aid, respCalls.calls, toolIdx + 1)
            /\ UNCHANGED <<steeringQueue, isRunning, pendingToolCalls, iterations,
                           owner, lastOutcome, llmCallsThisLoop, watcherVars>>
       ELSE LET r == LoopTop(messages, steeringQueue, iterations)
            IN  /\ pendingToolCalls' = <<>>
                /\ Advance(r, owner, llmCallsThisLoop)
                /\ IF r.next = "llm" THEN UNCHANGED watcherVars
                   ELSE OnSettle(owner, r.next = "return")
                /\ UNCHANGED toolIdx
    /\ UNCHANGED <<tools, respCalls, pollVars, idVars, events, steeredDuring,
                   raisedAlreadyRunning, llmFailed>>
    /\ UNCHANGED <<schedVars, extVars>>

\* ------------------------------------------------------------------ Watcher
countVars == <<handlerCalls, handlerFailures, deleteAttempts, errorEvents,
               processedEvents, results>>

\* A processFile guard that forgets the items already done.
SkipFileProcessingOnly(f) == f \in processing

\* A processFile guard that forgets the items being processed.
SkipFileProcessedOnly(f) == f \in processed

\* processFile: TRUE when the item is skipped as being processed or done.
SkipFile(f) == f \in processing \/ f \in processed

\* processFile(f) called by a discovery path, up to its first await.
ProcessFile(f, path) ==
    IF SkipFile(f)
    THEN /\ dupSkipped' = IF f \in processing /\ path # procPath[f]
                          THEN dupSkipped \cup {f} ELSE dupSkipped
         /\ UNCHANGED <<processing, pfPc, procPath>>
    ELSE IF f \notin pendingFiles
         THEN UNCHANGED <<processing, pfPc, procPath, dupSkipped>>
         ELSE /\ processing' = processing \cup {f}
              /\ pfPc' = [pfPc EXCEPT ![f] = "read"]
              /\ procPath' = [procPath EXCEPT ![f] = path]
              /\ UNCHANGED dupSkipped

\* PendingWatcher.start()
WatcherStart ==
    /\ Inputs < MaxEvents
    /\ toggles' = toggles + 1
    /\ IF watcherArmed
       THEN UNCHANGED <<watcherArmed, scanIntervals>>
       ELSE /\ watcherArmed' = TRUE
            /\ scanIntervals' = scanIntervals + 1
    /\ UNCHANGED <<messages, steeringQueue, isRunning, tools, callVars, pc, iterations,
                   owner, pollVars, idVars, events, lastOutcome, llmCallsThisLoop,
                   steeredDuring, raisedAlreadyRunning, llmFailed>>
    /\ UNCHANGED <<pendingFiles, itemsWritten, notify, processing, processed, pfPc,
                   procPath, dupSkipped, countVars, steeredFor, ioFaults, faults>>
    /\ UNCHANGED <<schedVars, extVars>>

\* PendingWatcher.stop()
WatcherStop ==
    /\ Inputs < MaxEvents
    /\ toggles' = toggles + 1
    /\ watcherArmed' = FALSE
    /\ UNCHANGED <<messages, steeringQueue, isRunning, tools, callVars, pc, iterations,
                   owner, pollVars, idVars, events, lastOutcome, llmCallsThisLoop,
                   steeredDuring, raisedAlreadyRunning, llmFailed>>
    /\ UNCHANGED <<pendingFiles, itemsWritten, scanIntervals, notify, processing,
                   processed, pfPc, procPath, dupSkipped, countVars, steeredFor,
                   ioFaults, faults>>
    /\ UNCHANGED <<schedVars, extVars>>

\* A Pending Work Item is written to the pending directory (Scheduler.triggerTask).
WriteItem ==
    /\ Inputs < MaxEvents
    /\ itemsWritten < MaxItems
    /\ itemsWritten' = itemsWritten + 1
    /\ pendingFiles' = pendingFiles \cup {itemsWritten + 1}
    /\ notify' = IF watcherArmed THEN notify \cup {itemsWritten + 1} ELSE notify
    /\ UNCHANGED <<messages, steeringQueue, isRunning, tools, callVars, pc, iterations,
                   owner, pollVars, idVars, events, lastOutcome, llmCallsThisLoop,
                   steeredDuring, raisedAlreadyRunning, llmFailed>>
    /\ UNCHANGED <<watcherArmed, scanIntervals, processing, processed, pfPc, procPath,
                   dupSkipped, countVars, steeredFor, ioFaults, faults, toggles>>
    /\ UNCHANGED <<schedVars, extVars>>

\* scanPending (a periodic or the initial scan) reaches item f of its listing.
ScanDiscover(f) ==
    /\ scanIntervals > 0
    /\ f \in 1..itemsWritten
    /\ ProcessFile(f, "scan")
    /\ UNCHANGED <<agentVars, pendingFiles, itemsWritten, watcherArmed, scanIntervals,
                   notify, processed, countVars, steeredFor, ioFaults, faults, toggles>>
    /\ UNCHANGED <<schedVars, extVars>>

\* The debounce timer of a change notification for f fires.
NotifyDiscover(f) ==
    /\ f \in notify
    /\ notify' = notify \ {f}
    /\ ProcessFile(f, "notify")
    /\ UNCHANGED <<agentVars, pendingFiles, itemsWritten, watcherArmed, scanIntervals,
                   processed, countVars, steeredFor, ioFaults, faults, toggles>>
    /\ UNCHANGED <<schedVars, extVars>>

\* readFile resolves (or rejects with ENOENT when the item is gone); on
\* success onTask = handlePendingTask runs up to its first await: steer, then
\* continue() if the Agent is not running, else recordResult.
ReadDone(f) ==
    /\ pfPc[f] = "read"
    /\ IF f \notin pendingFiles
       THEN /\ Catch(f, "ENOENT")
            /\ UNCHANGED <<agentVars, handlerCalls, handlerFailures, steeredFor>>
       ELSE LET id == steerCalls + 1
                q1 == Append(steeringQueue, SteerMsg("user", id))
                r  == LoopTop(messages, q1, 0)
            IN  /\ handlerCalls' = [handlerCalls EXCEPT ![f] = @ + 1]
                /\ steeredFor' = [steeredFor EXCEPT ![f] = @ \cup {id}]
                /\ steerCalls' = id
                /\ UNCHANGED <<tools, callVars, pollVars, runCalls, llmResponses,
                               events, llmFailed>>
                /\ IF isRunning \/ ContinueIsNoop(isRunning)
                   THEN /\ steeringQueue' = q1
                        /\ steeredDuring' = IF isRunning THEN steeredDuring \cup {id}
                                            ELSE steeredDuring
                        /\ pfPc' = [pfPc EXCEPT ![f] = "record"]
                        /\ UNCHANGED <<messages, isRunning, pc, iterations, owner,
                                       lastOutcome, llmCallsThisLoop,
                                       raisedAlreadyRunning, processing, processed,
                                       errorEvents, handlerFailures>>
                   ELSE /\ EnterLoop(messages, q1, HandlerOwner(f))
                        /\ steeredDuring' = {}
                        /\ CASE r.next = "llm" ->
                                  /\ pfPc' = [pfPc EXCEPT ![f] = "agent"]
                                  /\ UNCHANGED <<processing, processed, errorEvents,
                                                 handlerFailures>>
                             [] r.next = "return" ->
                                  /\ pfPc' = [pfPc EXCEPT ![f] = "record"]
                                  /\ UNCHANGED <<processing, processed, errorEvents,
                                                 handlerFailures>>
                             [] r.next = "maxiter" ->
                                  /\ handlerFailures' =
                                        [handlerFailures EXCEPT ![f] = @ + 1]
                                  /\ Catch(f, "none")
    /\ UNCHANGED <<pendingFiles, itemsWritten, watcherArmed, scanIntervals, notify,
                   procPath, dupSkipped, deleteAttempts, processedEvents, results,
                   ioFaults, faults, toggles>>
    /\ UNCHANGED <<schedVars, extVars>>

\* readFile rejects with another error, or JSON.parse throws.
ReadBad(f) ==
    /\ pfPc[f] = "read"
    /\ f \in pendingFiles
    /\ Inputs < MaxEvents
    /\ faults' = faults + 1
    /\ ioFaults' = ioFaults \cup {f}
    /\ Catch(f, "none")
    /\ UNCHANGED <<messages, steeringQueue, isRunning, tools, callVars, pc, iterations,
                   owner, pollVars, idVars, events, lastOutcome, llmCallsThisLoop,
                   steeredDuring, raisedAlreadyRunning, llmFailed>>
    /\ UNCHANGED <<pendingFiles, itemsWritten, watcherArmed, scanIntervals, notify,
                   procPath, dupSkipped, handlerCalls, handlerFailures,
                   deleteAttempts, processedEvents, results, steeredFor, toggles>>
    /\ UNCHANGED <<schedVars, extVars>>

\* recordResult resolves: the handler returns, processFile marks the item
\* processed and calls unlink.
RecordDone(f) ==
    /\ pfPc[f] = "record"
    /\ results' = [results EXCEPT ![f] = @ + 1]
    /\ processed' = processed \cup {f}
    /\ deleteAttempts' = [deleteAttempts EXCEPT ![f] = @ + 1]
    /\ pfPc' = [pfPc EXCEPT ![f] = "unlink"]
    /\ UNCHANGED <<agentVars, pendingFiles, itemsWritten, watcherArmed, scanIntervals,
                   notify, processing, procPath, dupSkipped, handlerCalls,
                   handlerFailures, errorEvents, processedEvents, steeredFor,
                   ioFaults, faults, toggles>>
    /\ UNCHANGED <<schedVars, extVars>>

\* recordResult's writeFile rejects with `code`: the handler rejects.
RecordFails(f, code) ==
    /\ pfPc[f] = "record"
    /\ Inputs < MaxEvents
    /\ faults' = faults + 1
    /\ ioFaults' = ioFaults \cup {f}
    /\ handlerFailures' = [handlerFailures EXCEPT ![f] = @ + 1]
    /\ Catch(f, code)
    /\ UNCHANGED <<messages, steeringQueue, isRunning, tools, callVars, pc, iterations,
                   owner, pollVars, idVars, events, lastOutcome, llmCallsThisLoop,
                   steeredDuring, raisedAlreadyRunning, llmFailed>>
    /\ UNCHANGED <<pendingFiles, itemsWritten, watcherArmed, scanIntervals, notify,
                   procPath, dupSkipped, handlerCalls, deleteAttempts,
                   processedEvents, results, steeredFor, toggles>>
    /\ UNCHANGED <<schedVars, extVars>>

\* unlink resolves, or rejects with ENOENT (swallowed): 'processed' is emitted.
UnlinkDone(f) ==
    /\ pfPc[f] = "unlink"
    /\ pendingFiles' = pendingFiles \ {f}
    /\ notify' = IF watcherArmed /\ f \in pendingFiles THEN notify \cup {f} ELSE notify
    /\ processedEvents' = [processedEvents EXCEPT ![f] = @ + 1]
    /\ processing' = processing \ {f}
    /\ pfPc' = [pfPc EXCEPT ![f] = "idle"]
    /\ UNCHANGED <<agentVars, itemsWritten, watcherArmed, scanIntervals, processed,
                   procPath, dupSkipped, handlerCalls, handlerFailures,
                   deleteAttempts, errorEvents, results, steeredFor, ioFaults, faults, toggles>>
    /\ UNCHANGED <<schedVars, extVars>>

\* unlink rejects with another error: rethrown into the outer catch.
UnlinkFails(f) ==
    /\ pfPc[f] = "unlink"
    /\ f \in pendingFiles
    /\ Inputs < MaxEvents
    /\ faults' = faults + 1
    /\ ioFaults' = ioFaults \cup {f}
    /\ Catch(f, "EPERM")
    /\ UNCHANGED <<messages, steeringQueue, isRunning, tools, callVars, pc, iterations,
                   owner, pollVars, idVars, events, lastOutcome, llmCallsThisLoop,
                   steeredDuring, raisedAlreadyRunning, llmFailed>>
    /\ UNCHANGED <<pendingFiles, itemsWritten, watcherArmed, scanIntervals, notify,
                   procPath, dupSkipped, handlerCalls, handlerFailures,
                   deleteAttempts, processedEvents, results, steeredFor, toggles>>
    /\ UNCHANGED <<schedVars, extVars>>

\* Another actor removes the item from the pending directory.
ExternalDelete(f) ==
    /\ f \in pendingFiles
    /\ Inputs < MaxEvents
    /\ faults' = faults + 1
    /\ pendingFiles' = pendingFiles \ {f}
    /\ notify' = IF watcherArmed THEN notify \cup {f} ELSE notify
    /\ ioFaults' = ioFaults \cup {f}
    /\ UNCHANGED <<messages, steeringQueue, isRunning, tools, callVars, pc, iterations,
                   owner, pollVars, idVars, events, lastOutcome, llmCallsThisLoop,
                   steeredDuring, raisedAlreadyRunning, llmFailed>>
    /\ UNCHANGED <<itemsWritten, watcherArmed, scanIntervals, processing, processed,
                   pfPc, procPath, dupSkipped, countVars, steeredFor, toggles>>
    /\ UNCHANGED <<schedVars, extVars>>

\* ---------------------------------------------------------------- Scheduler
NoTime     == -1        \* an absent instant (undefined): nextRun, lastRun, trigger.at
NaNTime    == -2        \* getTime() of an Invalid Date
NoMax      == -1        \* maxRuns absent
TickPeriod == 10000     \* period of the tick timer, in milliseconds
StartClock == 3590000   \* clock at construction: 50 s before the end of an hour

\* trigger.cron: absent, of the form "*/n ..." (first field starts with "*/",
\* parseInt of the rest is n), or of another form such as "0 * * * *".
NoCron == [form |-> "none", n |-> 0]
CronEvery(n) == [form |-> "step", n |-> n]
CronOther == [form |-> "other", n |-> 0]

Min(S) == CHOOSE x \in S : \A y \in S : x <= y
\* Math.ceil(a / b) for a >= 0, b > 0
Ceil(a, b) == (a + b - 1) \div b

\* An evaluator that takes every recurrence expression for "every minute".
parseCronAny(cron, t) ==
    (t - (t % 3600000)) + (((t \div 60000) % 60) + 1) * 60000

\* parseCron(cron, now): null (NoTime) unless the first field starts with
\* "*/"; else minute ceil((currentMin + 1) / interval) * interval of the
\* hour of `t` (setMinutes carries minutes past 59 into the next hours),
\* seconds and milliseconds zero. Interval 0 yields an Invalid Date.
parseCron(cron, t) ==
    IF cron.form = "step"
    THEN IF cron.n = 0
         THEN NaNTime
         ELSE LET currentMin == (t \div 60000) % 60
                  nextMin == Ceil(currentMin + 1, cron.n) * cron.n
              IN  (t - (t % 3600000)) + nextMin * 60000
    ELSE NoTime

NoTask == [present |-> FALSE, type |-> "none", at |-> NoTime, cron |-> NoCron,
           enabled |-> FALSE, maxRuns |-> NoMax, nextRun |-> NoTime,
           lastRun |-> NoTime, runCount |-> 0]

\* Definitions createTask is called with (they carry no nextRun or lastRun):
\* a one-shot task with an absolute time, and recurring tasks with a cron
\* expression, an absolute time, or both; maxRuns 1 is given for the triggers
\* that can fire more than once, maxRuns 0 for the one-shot task.
TaskDefs ==
    {d \in [type : {"scheduled", "recurring"},
            at : {NoTime, StartClock + TickPeriod},
            cron : {NoCron, CronEvery(1), CronOther},
            enabled : {TRUE},
            maxRuns : {NoMax, 0, 1}] :
        /\ (d.at # NoTime \/ d.cron # NoCron)
        /\ (d.type = "scheduled" => d.cron = NoCron)
        /\ (d.maxRuns = 1 =>
               d.cron = CronEvery(1) \/ (d.cron = CronOther /\ d.at # NoTime))
        /\ (d.maxRuns = 0 => d.type = "scheduled")}

\* createTask: the initial nextRun of a definition created at instant t.
InitialNextRun(def, t) ==
    IF def.at # NoTime
    THEN def.at
    ELSE IF def.cron.form # "none" /\ parseCron(def.cron, t) # NoTime
         THEN parseCron(def.cron, t)
         ELSE NoTime

\* A tick that ignores maxRuns, and one that ignores the enabled flag.
DueIgnoresMaxRuns(task, tickNow) ==
    /\ task.enabled
    /\ task.nextRun \notin {NoTime, NaNTime, 0}
    /\ task.nextRun <= tickNow

DueIgnoresEnabled(task, tickNow) ==
    /\ task.nextRun \notin {NoTime, NaNTime, 0}
    /\ task.nextRun <= tickNow
    /\ ~(task.maxRuns \notin {NoMax, 0} /\ task.runCount >= task.maxRuns)

\* checkTasks: the three `continue` tests, with `now` read at the tick's start.
Due(task, tickNow) ==
    /\ task.enabled
    /\ task.nextRun \notin {NoTime, NaNTime, 0}
    /\ task.nextRun <= tickNow
    /\ ~(task.maxRuns \notin {NoMax, 0} /\ task.runCount >= task.maxRuns)

\* A triggerTask that leaves nextRun as it was.
NextRunKept(task, t) == task.nextRun

\* triggerTask: nextRun after a firing at instant t.
NextRunAfterFire(task, t) ==
    IF task.type = "recurring" /\ task.cron.form # "none"
    THEN IF parseCron(task.cron, t) # NoTime
         THEN parseCron(task.cron, t)
         ELSE task.nextRun
    ELSE NoTime

\* triggerTask, up to `await this.saveTask(task)`.
TriggerTask(task, t) ==
    [task EXCEPT !.lastRun = t, !.runCount = @ + 1,
                 !.nextRun = NextRunAfterFire(task, t)]

NoAct == [stage |-> "idle", tickNow |-> 0, idx |-> 0, snap |-> NoTask]

\* checkTasks activation a going through the map from index `from`: the first
\* due task is triggered and the activation suspends on its saveTask; with no
\* due task left the activation ends.
CheckTasks(a, from, tickNow) ==
    LET due == {i \in from..MaxTasks : tasks[i].present /\ Due(tasks[i], tickNow)}
    IN  IF due = {}
        THEN /\ ticks' = [ticks EXCEPT ![a] = NoAct]
             /\ UNCHANGED <<tasks, fired>>
        ELSE LET i == Min(due)
                 t1 == TriggerTask(tasks[i], now)
             IN  /\ tasks' = [tasks EXCEPT ![i] = t1]
                 /\ fired' = [fired EXCEPT ![i] = @ + 1]
                 /\ ticks' = [ticks EXCEPT ![a] = [stage |-> "save", tickNow |-> tickNow,
                                                  idx |-> i, snap |-> t1]]

\* The clock advances.
TimePasses(d) ==
    /\ timeSteps < MaxTimeSteps
    /\ timeSteps' = timeSteps + 1
    /\ now' = now + d
    /\ UNCHANGED <<tasks, created, checkInterval, tickTimers, armedAt, lastTickAt, ticks,
                   pendingSaves, taskStore, itemsFor, fired, toggledOff, schedFaults,
                   schedOps>>
    /\ UNCHANGED <<agentVars, watcherVars, extVars>>

\* Scheduler.start()
SchedulerStart ==
    /\ schedOps < MaxOps
    /\ schedOps' = schedOps + 1
    /\ IF checkInterval
       THEN UNCHANGED <<checkInterval, tickTimers, armedAt>>
       ELSE /\ checkInterval' = TRUE
            /\ tickTimers' = tickTimers + 1
            /\ armedAt' = now
    /\ UNCHANGED <<now, timeSteps, tasks, created, lastTickAt, ticks, pendingSaves,
                   taskStore, itemsFor, fired, toggledOff, schedFaults>>
    /\ UNCHANGED <<agentVars, watcherVars, extVars>>

\* Scheduler.stop()
SchedulerStop ==
    /\ schedOps < MaxOps
    /\ schedOps' = schedOps + 1
    /\ IF checkInterval
       THEN /\ checkInterval' = FALSE
            /\ tickTimers' = tickTimers - 1
       ELSE UNCHANGED <<checkInterval, tickTimers>>
    /\ UNCHANGED <<now, timeSteps, tasks, created, armedAt, lastTickAt, ticks,
                   pendingSaves,
                   taskStore, itemsFor, fired, toggledOff, schedFaults>>
    /\ UNCHANGED <<agentVars, watcherVars, extVars>>

\* createTask(definition), up to `await this.saveTask(task)`.
CreateTask(def) ==
    /\ schedOps < MaxOps
    /\ created < MaxTasks
    /\ schedOps' = schedOps + 1
    /\ created' = created + 1
    /\ LET task == [present |-> TRUE, type |-> def.type, at |-> def.at,
                    cron |-> def.cron, enabled |-> def.enabled,
                    maxRuns |-> def.maxRuns, nextRun |-> InitialNextRun(def, now),
                    lastRun |-> NoTime, runCount |-> 0]
       IN  /\ tasks' = [tasks EXCEPT ![created + 1] = task]
           /\ pendingSaves' = pendingSaves
                \cup {[op |-> "create", id |-> created + 1, snap |-> task]}
    /\ UNCHANGED <<now, timeSteps, checkInterval, tickTimers, armedAt, lastTickAt, ticks,
                   taskStore, itemsFor, fired, toggledOff, schedFaults>>
    /\ UNCHANGED <<agentVars, watcherVars, extVars>>

\* toggleTask(id, enabled), up to `await this.saveTask(task)`.
ToggleTask(id, en) ==
    /\ schedOps < MaxOps
    /\ id \in 1..created
    /\ schedOps' = schedOps + 1
    /\ IF tasks[id].present
       THEN /\ tasks' = [tasks EXCEPT ![id].enabled = en]
            /\ pendingSaves' = pendingSaves
                 \cup {[op |-> "toggle", id |-> id,
                        snap |-> [tasks[id] EXCEPT !.enabled = en]]}
            /\ toggledOff' = IF en THEN toggledOff \ {id} ELSE toggledOff
       ELSE UNCHANGED <<tasks, pendingSaves, toggledOff>>
    /\ UNCHANGED <<now, timeSteps, created, checkInterval, tickTimers, armedAt, lastTickAt,
                   ticks, taskStore, itemsFor, fired, schedFaults>>
    /\ UNCHANGED <<agentVars, watcherVars, extVars>>

\* deleteTask(id), up to `await unlink(filePath)`: the map entry is removed;
\* with no task file the call resolves at once.
DeleteTask(id) ==
    /\ schedOps < MaxOps
    /\ id \in 1..created
    /\ schedOps' = schedOps + 1
    /\ tasks' = [tasks EXCEPT ![id] = NoTask]
    /\ IF taskStore[id].present
       THEN /\ pendingUnlinks' = pendingUnlinks \cup {id}
            /\ UNCHANGED deleted
       ELSE /\ deleted' = [deleted EXCEPT ![id] = "nofile"]
            /\ UNCHANGED pendingUnlinks
    /\ UNCHANGED <<now, timeSteps, created, checkInterval, tickTimers, armedAt, lastTickAt,
                   ticks, pendingSaves, taskStore, itemsFor, fired, toggledOff,
                   schedFaults>>
    /\ UNCHANGED <<agentVars, watcherVars, coordVars, sessVars>>

\* The unlink of a deleteTask call lands and the call resolves.
UnlinkTaskDone(id) ==
    /\ id \in pendingUnlinks
    /\ pendingUnlinks' = pendingUnlinks \ {id}
    /\ deleted' = [deleted EXCEPT ![id] = "unlinked"]
    /\ taskStore' = [taskStore EXCEPT ![id] = NoTask]
    /\ UNCHANGED <<now, timeSteps, tasks, created, checkInterval, tickTimers, armedAt,
                   lastTickAt, ticks, pendingSaves, itemsFor, fired, toggledOff,
                   schedFaults, schedOps>>
    /\ UNCHANGED <<agentVars, watcherVars, coordVars, sessVars>>

\* The write of a createTask/toggleTask call lands and
\* the call resolves.
OpDone(s) ==
    /\ s \in pendingSaves
    /\ pendingSaves' = pendingSaves \ {s}
    /\ taskStore' = [taskStore EXCEPT ![s.id] = s.snap]
    /\ toggledOff' = IF /\ s.op = "toggle"
                        /\ ~s.snap.enabled
                        /\ tasks[s.id].present
                        /\ ~tasks[s.id].enabled
                     THEN toggledOff \cup {s.id}
                     ELSE toggledOff
    /\ UNCHANGED <<now, timeSteps, tasks, created, checkInterval, tickTimers, armedAt,
                   lastTickAt, ticks, itemsFor, fired, schedFaults, schedOps>>
    /\ UNCHANGED <<agentVars, watcherVars, extVars>>

\* That write fails: the call rejects to its caller.
OpFails(s) ==
    /\ s \in pendingSaves
    /\ schedOps < MaxOps
    /\ schedOps' = schedOps + 1
    /\ schedFaults' = schedFaults + 1
    /\ pendingSaves' = pendingSaves \ {s}
    /\ UNCHANGED <<now, timeSteps, tasks, created, checkInterval, tickTimers, armedAt,
                   lastTickAt, ticks, taskStore, itemsFor, fired, toggledOff>>
    /\ UNCHANGED <<agentVars, watcherVars, extVars>>

\* The tick timer fires: checkTasks() starts.
Tick ==
    /\ tickTimers > 0
    /\ now >= armedAt + TickPeriod
    /\ (lastTickAt = NoTime \/ now >= lastTickAt + TickPeriod)
    /\ \E a \in 1..MaxInFlight : ticks[a].stage = "idle"
    /\ lastTickAt' = now
    /\ CheckTasks(Min({a \in 1..MaxInFlight : ticks[a].stage = "idle"}), 1, now)
    /\ UNCHANGED <<now, timeSteps, created, checkInterval, tickTimers, armedAt,
                   pendingSaves, taskStore, itemsFor, toggledOff, schedFaults, schedOps>>
    /\ UNCHANGED <<agentVars, watcherVars, extVars>>

\* saveTask of activation a resolves: triggerTask goes on to write the
\* Pending Work Item.
SaveDone(a) ==
    /\ ticks[a].stage = "save"
    /\ taskStore' = [taskStore EXCEPT ![ticks[a].idx] = ticks[a].snap]
    /\ ticks' = [ticks EXCEPT ![a].stage = "write"]
    /\ UNCHANGED <<now, timeSteps, tasks, created, checkInterval, tickTimers, armedAt,
                   lastTickAt, pendingSaves, itemsFor, fired, toggledOff,
                   schedFaults, schedOps>>
    /\ UNCHANGED <<agentVars, watcherVars, extVars>>

\* A triggerTask that returns without writing the Pending Work Item.
WriteSkipped(a) ==
    /\ ticks[a].stage = "write"
    /\ CheckTasks(a, ticks[a].idx + 1, ticks[a].tickNow)
    /\ UNCHANGED <<now, timeSteps, created, checkInterval, tickTimers, armedAt,
                   lastTickAt, pendingSaves, taskStore, itemsFor, toggledOff,
                   schedFaults, schedOps>>
    /\ UNCHANGED <<agentVars, watcherVars, extVars>>

\* The Pending Work Item is written, 'trigger' is emitted and checkTasks goes
\* on with the rest of the map.
WriteDone(a) ==
    /\ ticks[a].stage = "write"
    /\ itemsFor' = [itemsFor EXCEPT ![ticks[a].idx] = @ + 1]
    /\ CheckTasks(a, ticks[a].idx + 1, ticks[a].tickNow)
    /\ UNCHANGED <<now, timeSteps, created, checkInterval, tickTimers, armedAt, lastTickAt,
                   pendingSaves, taskStore, toggledOff, schedFaults, schedOps>>
    /\ UNCHANGED <<agentVars, watcherVars, extVars>>

\* A triggerTask that takes back the run count when one of its writes fails.
TickWriteFailsRollsBack(a) ==
    /\ ticks[a].stage \in {"save", "write"}
    /\ schedOps < MaxOps
    /\ schedOps' = schedOps + 1
    /\ schedFaults' = schedFaults + 1
    /\ tasks' = [tasks EXCEPT ![ticks[a].idx].runCount = @ - 1]
    /\ ticks' = [ticks EXCEPT ![a] = NoAct]
    /\ UNCHANGED <<now, timeSteps, created, checkInterval, tickTimers, armedAt,
                   lastTickAt, pendingSaves, taskStore, itemsFor, fired, toggledOff>>
    /\ UNCHANGED <<agentVars, watcherVars, extVars>>

\* saveTask or the write of the item rejects: triggerTask and checkTasks
\* reject, the rest of the map is not looked at.
TickWriteFails(a) ==
    /\ ticks[a].stage \in {"save", "write"}
    /\ schedOps < MaxOps
    /\ schedOps' = schedOps + 1
    /\ schedFaults' = schedFaults + 1
    /\ ticks' = [ticks EXCEPT ![a] = NoAct]
    /\ UNCHANGED <<now, timeSteps, tasks, created, checkInterval, tickTimers, armedAt,
                   lastTickAt, pendingSaves, taskStore, itemsFor, fired, toggledOff>>
    /\ UNCHANGED <<agentVars, watcherVars, extVars>>

\* ------------------------------------------------------------ ProactiveAgent
\* What the calls of the ProactiveAgent leave alone.
proFrame ==
    /\ UNCHANGED <<agentVars, delVars, sessVars, autoStart>>
    /\ UNCHANGED <<pendingFiles, itemsWritten, notify, processing, processed, pfPc,
                   procPath, dupSkipped, countVars, steeredFor, ioFaults, faults,
                   toggles>>
    /\ UNCHANGED <<now, timeSteps, tasks, created, lastTickAt, ticks, pendingSaves,
                   taskStore, itemsFor, fired, toggledOff, schedFaults, schedOps>>

\* ProactiveAgent.init(): Scheduler.init() ends with Scheduler.start(); then
\* start() is called when config.autoStart is set.
ProInit ==
    /\ proCalls < MaxProCalls
    /\ proCalls' = proCalls + 1
    /\ proInited' = TRUE
    /\ IF checkInterval
       THEN UNCHANGED <<checkInterval, tickTimers, armedAt>>
       ELSE /\ checkInterval' = TRUE
            /\ tickTimers' = tickTimers + 1
            /\ armedAt' = now
    /\ IF autoStart /\ ~proIsRunning
       THEN /\ proIsRunning' = TRUE
            /\ IF watcherArmed
               THEN UNCHANGED <<watcherArmed, scanIntervals>>
               ELSE /\ watcherArmed' = TRUE
                    /\ scanIntervals' = scanIntervals + 1
       ELSE UNCHANGED <<proIsRunning, watcherArmed, scanIntervals>>
    /\ UNCHANGED proStarts
    /\ proFrame

\* ProactiveAgent.start(): the Watcher is started, the Scheduler is not touched.
ProStart ==
    /\ proCalls < MaxProCalls
    /\ proCalls' = proCalls + 1
    /\ proStarts' = proStarts + 1
    /\ IF proIsRunning
       THEN UNCHANGED <<proIsRunning, watcherArmed, scanIntervals>>
       ELSE /\ proIsRunning' = TRUE
            /\ IF watcherArmed
               THEN UNCHANGED <<watcherArmed, scanIntervals>>
               ELSE /\ watcherArmed' = TRUE
                    /\ scanIntervals' = scanIntervals + 1
    /\ UNCHANGED <<proInited, checkInterval, tickTimers, armedAt>>
    /\ proFrame

\* ProactiveAgent.stop(): Watcher.stop() and Scheduler.stop().
ProStop ==
    /\ proCalls < MaxProCalls
    /\ proCalls' = proCalls + 1
    /\ watcherArmed' = FALSE
    /\ IF checkInterval
       THEN /\ checkInterval' = FALSE
            /\ tickTimers' = tickTimers - 1
       ELSE UNCHANGED <<checkInterval, tickTimers>>
    /\ proIsRunning' = FALSE
    /\ UNCHANGED <<proInited, proStarts, scanIntervals, armedAt>>
    /\ proFrame

\* ----------------------------------------------------------- SessionManager
\* The session is in SessionManager.sessions.
InMap(s) == sessStatus[s] \notin {"none", "gone"}

\* What the calls of the SessionManager leave alone.
sessFrame ==
    UNCHANGED <<agentVars, watcherVars, schedVars, delVars, coordVars, errorListener>>

\* One more SessionManager call.
SessOp ==
    /\ sessOps < MaxSessOps
    /\ sessOps' = sessOps + 1

\* A sendMessage call: started when stream:start was emitted; ends counts
\* the stream:end events, errors the emit('error') calls, appended tells
\* whether the assistant message was pushed, thrown what the call rejected
\* with.
SendRec(s, started, stage, thrown) ==
    [sess |-> s, started |-> started, stage |-> stage, ends |-> 0, errors |-> 0,
     appended |-> FALSE, thrown |-> thrown]

\* createSession() with a fresh id: the session and its Agent are set before
\* the await of persistSession.
CreateSession(s) ==
    /\ SessOp
    /\ sessStatus[s] = "none"
    /\ sessStatus' = [sessStatus EXCEPT ![s] = "idle"]
    /\ sessAgents' = sessAgents \cup {s}
    /\ sessMessages' = [sessMessages EXCEPT ![s] = <<>>]
    /\ UNCHANGED <<activeSessionId, closing, sends>>
    /\ sessFrame

\* updateSessionStatus(sessionId, status): nothing for a session not in the map.
updateSessionStatus(s, status) ==
    sessStatus' = IF InMap(s) THEN [sessStatus EXCEPT ![s] = status] ELSE sessStatus

\* activateSession(sessionId): throws for a session not in the map.
ActivateSession(s) ==
    /\ SessOp
    /\ IF InMap(s)
       THEN /\ activeSessionId' = s
            /\ updateSessionStatus(s, "active")
       ELSE UNCHANGED <<activeSessionId, sessStatus>>
    /\ UNCHANGED <<sessAgents, sessMessages, closing, sends>>
    /\ sessFrame

\* pauseSession(sessionId)
PauseSession(s) ==
    /\ SessOp
    /\ updateSessionStatus(s, "paused")
    /\ UNCHANGED <<sessAgents, activeSessionId, sessMessages, closing, sends>>
    /\ sessFrame

\* closeSession(sessionId), up to the await of persistSession.
CloseEffect(s) ==
    IF InMap(s)
    THEN /\ updateSessionStatus(s, "closed")
         /\ sessAgents' = sessAgents \ {s}
         /\ activeSessionId' = IF activeSessionId = s THEN 0 ELSE activeSessionId
    ELSE UNCHANGED <<sessStatus, sessAgents, activeSessionId>>

CloseSession(s) ==
    /\ SessOp
    /\ CloseEffect(s)
    /\ UNCHANGED <<sessMessages, closing, sends>>
    /\ sessFrame

\* deleteSession(sessionId), up to `await this.closeSession(sessionId)`.
DeleteSession(s) ==
    /\ SessOp
    /\ CloseEffect(s)
    /\ closing' = closing \cup {s}
    /\ UNCHANGED <<sessMessages, sends>>
    /\ sessFrame

\* deleteSession resumes: the session is removed from the map (and its file
\* unlinked).
DeleteCont(s) ==
    /\ s \in closing
    /\ closing' = closing \ {s}
    /\ sessStatus' = IF InMap(s) THEN [sessStatus EXCEPT ![s] = "gone"] ELSE sessStatus
    /\ UNCHANGED <<sessAgents, activeSessionId, sessMessages, sends, sessOps>>
    /\ sessFrame

\* sendMessage(sessionId, content), up to `await agent.run(content)`: the
\* three checks, the user message, stream:start.
SendMessage(s) ==
    /\ SessOp
    /\ Len(sends) < MaxSends
    /\ IF ~InMap(s)
       THEN /\ sends' = Append(sends, SendRec(s, FALSE, "rejected", "notFound"))
            /\ UNCHANGED sessMessages
       ELSE IF sessStatus[s] = "closed"
       THEN /\ sends' = Append(sends, SendRec(s, FALSE, "rejected", "closed"))
            /\ UNCHANGED sessMessages
       ELSE IF s \notin sessAgents
       THEN /\ sends' = Append(sends, SendRec(s, FALSE, "rejected", "noAgent"))
            /\ UNCHANGED sessMessages
       ELSE /\ sends' = Append(sends, SendRec(s, TRUE, "run", "none"))
            /\ sessMessages' = [sessMessages EXCEPT ![s] = Append(@, "user")]
    /\ UNCHANGED <<sessStatus, sessAgents, activeSessionId, closing>>
    /\ sessFrame

\* agent.run resolves for call c: the assistant message is pushed to the
\* session, message:sent and, in the finally block, stream:end are emitted.
RunReturns(c) ==
    /\ c \in DOMAIN sends
    /\ sends[c].stage = "run"
    /\ sessMessages' = [sessMessages EXCEPT ![sends[c].sess] = Append(@, "assistant")]
    /\ sends' = [sends EXCEPT ![c].stage = "returned", ![c].appended = TRUE,
                              ![c].ends = @ + 1]
    /\ UNCHANGED <<sessStatus, sessAgents, activeSessionId, closing, sessOps>>
    /\ sessFrame

\* EventEmitter.emit('error', payload): with no listener for 'error' emit
\* itself throws an unhandled-error Error that wraps the payload.
EmitErrorThrows == ~errorListener

\* agent.run rejects for call c: the catch block emits 'error' and throws
\* err unless that emit threw; the finally block emits stream:end.
RunThrows(c) ==
    /\ c \in DOMAIN sends
    /\ sends[c].stage = "run"
    /\ sends' = [sends EXCEPT ![c].stage = "threw",
                              ![c].errors = @ + 1,
                              ![c].thrown = IF EmitErrorThrows THEN "unhandled" ELSE "run",
                              ![c].ends = @ + 1]
    /\ UNCHANGED <<sessStatus, sessAgents, activeSessionId, sessMessages, closing,
                   sessOps>>
    /\ sessFrame

\* ------------------------------------------------------------------ claims
SteerIdx(msgs) == {i \in DOMAIN msgs : msgs[i].src = "steer"}
SteerCount(msgs, id) == Cardinality({i \in SteerIdx(msgs) : msgs[i].id = id})
RunIdx(msgs) == {i \in DOMAIN msgs : msgs[i].src = "run"}
IsPrefix(s, t) == Len(s) <= Len(t) /\ SubSeq(t, 1, Len(s)) = s
\* a run()/continue() promise that entered the loop settles in this step
LoopEnds == /\ lastOutcome'.n # lastOutcome.n
            /\ lastOutcome'.kind \in {"returned", "maxIterations", "llmError"}
\* the completion call is issued in this step
LLMCallIssued == pc # "llm" /\ pc' = "llm"

\* C1: when a loop invocation returns, every message steered while it was
\* running is in the log exactly once and none of them is still queued.
C1_SteeredDuringLoopDelivered ==
    [][(isRunning /\ LoopEnds /\ lastOutcome'.kind = "returned")
         => \A id \in steeredDuring :
               /\ SteerCount(messages', id) = 1
               /\ SteerCount(steeringQueue', id) = 0]_vars

\* Nothing is in flight and nothing is left for a later scan: the Agent is
\* idle, no run() caller polls, no processFile activation is suspended, no
\* debounce timer is pending, every item still on disk is marked processed.
Quiescent ==
    /\ pc = "idle"
    /\ waiting = {}
    /\ notify = {}
    /\ \A f \in Items : pfPc[f] = "idle" /\ (f \in pendingFiles => f \in processed)

\* the log holds a message steered for item f, and a later assistant answer
Delivered(f) ==
    \E i \in SteerIdx(messages) :
        /\ messages[i].id \in steeredFor[f]
        /\ \E j \in DOMAIN messages :
              j > i /\ messages[j].role = "assistant" /\ messages[j].src = "llm"

\* C2: end-to-end delivery. With the Watcher started, no completion failure
\* and no I/O fault, once the pipeline has come to rest every item handed to
\* the Coordinator has its message in the log followed by a new assistant
\* message, and isRunning is false.
C2_EndToEndDelivery ==
    (Quiescent /\ watcherArmed /\ ~llmFailed /\ faults = 0)
       => /\ ~isRunning
          /\ \A f \in Items : handlerCalls[f] > 0 => Delivered(f)

\* C3: an item found by both discovery paths before its processing has
\* finished gets one handler invocation, one deletion attempt and no error
\* event (no fault being injected for it, its handler not rejecting): while
\* it is processed and afterwards the counts never exceed one, and when its
\* processing is over they are exactly one.
C3_OverlappingDiscoveryOnce ==
    \A f \in Items :
       (f \notin ioFaults /\ handlerFailures[f] = 0)
          => /\ handlerCalls[f] <= 1
             /\ deleteAttempts[f] <= 1
             /\ errorEvents[f] = 0
             /\ (f \in processed /\ pfPc[f] = "idle")
                   => /\ handlerCalls[f] = 1
                      /\ deleteAttempts[f] = 1
                      /\ processedEvents[f] = 1

\* an item a second path found while it was being processed, now done
C3_Witness ==
    \E f \in dupSkipped :
       /\ f \notin ioFaults
       /\ handlerFailures[f] = 0
       /\ f \in processed
       /\ pfPc[f] = "idle"
       /\ handlerCalls[f] = 1
       /\ deleteAttempts[f] = 1
       /\ errorEvents[f] = 0

\* C4: when the handler rejects for an item, whatever the error, the item
\* is not marked processed, the Watcher leaves it in the pending store, one
\* error event is emitted, and the item is eligible for a later scan.
C4_HandlerFailureLeavesItemForRetry ==
    [][\A f \in Items :
          handlerFailures'[f] > handlerFailures[f]
             => /\ f \notin processed'
                /\ f \notin processing'
                /\ pendingFiles' = pendingFiles
                /\ errorEvents'[f] = errorEvents[f] + 1]_vars

\* C5: at most one loop is active: the 'Agent is already running' error is
\* never raised, isRunning is true whenever a loop activation is suspended,
\* and a run() appends its user message only in a step that finds isRunning
\* false.
C5_SingleLoop ==
    /\ [](~raisedAlreadyRunning /\ (pc # "idle" => isRunning))
    /\ [][(Cardinality(RunIdx(messages')) > Cardinality(RunIdx(messages))
             \/ (\E i \in RunIdx(messages') : i > Len(messages)))
           => ~isRunning]_vars

\* a run() caller that had to poll has entered the loop, its message logged
C5_Witness ==
    \E i \in RunIdx(messages) : messages[i].id \in polled

\* C6: continue() while isRunning is true returns '' without throwing and
\* leaves the log, the steering queue and isRunning as they were.
C6_ContinueNoopWhileRunning ==
    [][(ContinueCall /\ isRunning)
         => /\ messages' = messages
            /\ steeringQueue' = steeringQueue
            /\ isRunning' = isRunning
            /\ lastOutcome'.owner = ContinueOwner
            /\ lastOutcome'.kind = "empty"
            /\ ~raisedAlreadyRunning']_vars

C6_Witness ==
    isRunning /\ lastOutcome.owner = ContinueOwner /\ lastOutcome.kind = "empty"

\* C7: steered messages reach the log in the order steer was called, each at
\* most once: steer ids grow strictly along the log, along the queue, and
\* from the log to the queue.
C7_SteerFifo ==
    /\ \A i, j \in SteerIdx(messages) : i < j => messages[i].id < messages[j].id
    /\ \A i, j \in DOMAIN steeringQueue :
          i < j => steeringQueue[i].id < steeringQueue[j].id
    /\ \A i \in SteerIdx(messages) : \A j \in DOMAIN steeringQueue :
          messages[i].id < steeringQueue[j].id

C7_Witness ==
    \E i, j \in SteerIdx(messages) : i < j /\ isRunning /\ messages[j].id \in steeredDuring

\* C8 (as claimed): the completion call is never issued while the steering
\* queue still holds a message.
C8_QueueEmptyAtCall ==
    [][LLMCallIssued => steeringQueue' = <<>>]_vars

\* C8 (amended): a completion call issued from a state with a non-empty
\* steering queue is preceded, in the same synchronous segment, by moving
\* the head of the queue to the log: the queue loses a non-empty prefix,
\* that prefix is the tail of the log, and the rest stays queued.
C8_HeadDrainedBeforeCall ==
    [][(LLMCallIssued /\ steeringQueue # <<>>)
         => LET k == Len(steeringQueue) - Len(steeringQueue')
            IN  /\ k >= 1
                /\ steeringQueue' = SubSeq(steeringQueue, k + 1, Len(steeringQueue))
                /\ Len(messages') >= k
                /\ SubSeq(messages', Len(messages') - k + 1, Len(messages'))
                     = SubSeq(steeringQueue, 1, k)]_vars

\* a first completion call in flight, its iteration having popped one
\* message, with messages queued before the loop began still waiting
C8_Witness ==
    /\ pc = "llm"
    /\ llmCallsThisLoop = 1
    /\ steeredDuring = {}
    /\ steeringQueue # <<>>
    /\ Last(messages).src = "steer"

\* C9: an invocation performs at most maxIterations iterations and so at
\* most maxIterations completion calls; when the bound is used up and the
\* loop would go round again, the call fails with the iteration-limit error.
C9_IterationBound ==
    /\ [](iterations <= MaxIterations /\ llmCallsThisLoop <= iterations)
    /\ [][(/\ pc = "toolDone"
           /\ pc' # "toolDone"
           /\ toolIdx = Len(respCalls.calls)
           /\ iterations = MaxIterations)
          => (/\ lastOutcome'.n = lastOutcome.n + 1
              /\ lastOutcome'.kind = "maxIterations"
              /\ lastOutcome'.owner = owner
              /\ pc' = "idle")]_vars

C9_Witness ==
    /\ lastOutcome.kind = "maxIterations"
    /\ llmCallsThisLoop = MaxIterations

\* C10: when an invocation that entered the loop ends (return, iteration
\* limit, failing completion call) isRunning is false afterwards, the
\* outcome is the caller's, and the log keeps everything appended before.
C10_EndResetsRunning ==
    [][LoopEnds
         => /\ ~isRunning'
            /\ pc' = "idle"
            /\ (isRunning => lastOutcome'.owner = owner)
            /\ IsPrefix(messages, messages')
            /\ (lastOutcome'.kind = "llmError" => messages' = messages)]_vars

C10_Witness ==
    /\ lastOutcome.kind = "llmError"
    /\ ~isRunning
    /\ \E i \in DOMAIN messages : messages[i].role = "tool"

ToolIdxSet(msgs) == {i \in DOMAIN msgs : msgs[i].role = "tool"}
\* a tool call of the active response reaches its end in this step
CallEnds == pc' = "toolDone" /\ (pc # "toolDone" \/ toolIdx' # toolIdx)

\* C11: a tool call whose execute rejects, or whose name is not registered,
\* appends exactly one tool message with the error text and the call's id,
\* and nothing is thrown: the loop stays active, the activation settles no
\* promise, the next call of the response is started, and after the last
\* call the loop issues the next completion call (given iterations left,
\* nothing steered and the log not cleared meanwhile).
C11_ToolFailureIsObservation ==
    [][/\ (CallEnds /\ Last(messages').src \in {"error", "notFound"})
          => /\ Last(messages') = ToolMsg(<<respCalls'.aid, toolIdx'>>,
                                          respCalls'.calls[toolIdx'],
                                          Last(messages').src)
             /\ Cardinality(ToolIdxSet(messages'))
                  = Cardinality(ToolIdxSet(messages)) + 1
             /\ isRunning'
             /\ lastOutcome' = lastOutcome
       /\ (pc = "tool" /\ pc' # "tool") => (pc' = "toolDone" /\ isRunning')
       /\ (pc = "toolDone" /\ toolIdx < Len(respCalls.calls)
             /\ (pc' # pc \/ toolIdx' # toolIdx))
          => (toolIdx' = toolIdx + 1 /\ pc' \in {"tool", "toolDone"})
       /\ (pc = "toolDone" /\ toolIdx = Len(respCalls.calls) /\ pc' # "toolDone"
             /\ iterations < MaxIterations /\ steeringQueue = <<>>
             /\ Last(messages).role = "tool")
          => (pc' = "llm" /\ isRunning')]_vars

\* a response of two calls whose first call failed and whose second call ran,
\* the loop now waiting for its next completion call
C11_Witness ==
    /\ pc = "llm"
    /\ llmCallsThisLoop = 2
    /\ Len(respCalls.calls) = 2
    /\ Len(messages) >= 3
    /\ messages[Len(messages) - 1].role = "tool"
    /\ messages[Len(messages) - 1].ref = <<respCalls.aid, 1>>
    /\ messages[Len(messages) - 1].src \in {"error", "notFound"}
    /\ Last(messages).ref = <<respCalls.aid, 2>>

\* C12: every tool message of the log refers to a tool-call id of the
\* assistant message that immediately precedes its block of tool results.
C12_ToolMessageFollowsItsCall ==
    \A i \in ToolIdxSet(messages) :
       \E j \in 1..(i - 1) :
          /\ messages[j].role = "assistant"
          /\ \A k \in (j + 1)..i : messages[k].role = "tool"
          /\ \E c \in DOMAIN messages[j].calls :
                messages[i].ref = <<messages[j].id, c>>

\* ------------------------------------------------- Agent claims, continued
\* C24: clear() leaves exactly the system message in the log and an empty
\* steering queue, and changes neither isRunning, nor the tool registry, nor
\* the position of a suspended loop.
C24_ClearFrame ==
    /\ [](Len(messages) >= 1 /\ messages[1].role = "system")
    /\ [][Clear => /\ messages' = <<messages[1]>>
                   /\ steeringQueue' = <<>>
                   /\ isRunning' = isRunning
                   /\ tools' = tools
                   /\ <<pc, owner, iterations, callVars>>' = <<pc, owner, iterations, callVars>>]_vars

\* clear() was called while a loop that had already appended to the log was
\* suspended, after a registerTool
C24_Witness ==
    /\ isRunning
    /\ pc # "idle"
    /\ llmResponses > 0
    /\ messages = <<[SystemMsg EXCEPT !.id = Cardinality(ToolNames)]>>
    /\ steeringQueue = <<>>
    /\ tools = ToolNames

\* C25: steer(message) appends the message to the tail of the steering
\* queue and returns; the log, isRunning, the position of the loop and the
\* callers waiting are as before, whether the Agent is running or idle.
C25_SteerFrame ==
    [][\A r \in SteerRoles :
          Steer(r) => /\ steeringQueue' = Append(steeringQueue, SteerMsg(r, steerCalls + 1))
                      /\ messages' = messages
                      /\ isRunning' = isRunning
                      /\ <<pc, owner, iterations, lastOutcome, waiting>>'
                            = <<pc, owner, iterations, lastOutcome, waiting>>]_vars

\* the queue holds a message steered while idle ahead of one steered while
\* the loop is suspended
C25_Witness ==
    /\ isRunning
    /\ Len(steeringQueue) >= 2
    /\ steeringQueue[Len(steeringQueue) - 1].id \notin steeredDuring
    /\ Last(steeringQueue).id \in steeredDuring

\* the log ends with an assistant message or holds the system message only
LogAtRest == Len(messages) = 1 \/ Last(messages).role = "assistant"

\* C26 (as claimed): whenever the Agent is not running its log ends with an
\* assistant message or holds no message beyond the system message.
C26_IdleLogAtRest == [](~isRunning => LogAtRest)

\* C26 (amended): the same, for the states in which no loop invocation has
\* run yet or the last one returned normally.
C26_IdleLogAtRestAfterReturn ==
    [](~isRunning /\ lastOutcome.kind \in {"none", "returned"} => LogAtRest)

\* the Agent at rest after a normal return that followed a failed invocation
C26_Witness ==
    /\ ~isRunning
    /\ llmFailed
    /\ lastOutcome.kind = "returned"
    /\ Len(messages) > 1
    /\ Last(messages).role = "assistant"

\* a call of run or continue settles in this step with outcome kind k
Settles(k) == lastOutcome'.n > lastOutcome.n /\ lastOutcome'.kind = k

\* continue() enters the loop with a log ending on an assistant message and
\* an empty steering queue: it returns that message's text at once, with no
\* completion call and the log unchanged.
ReturnsAtOnce ==
    (ContinueCall /\ ~isRunning /\ Last(messages).role = "assistant"
                  /\ steeringQueue = <<>>)
       => /\ messages' = messages
          /\ lastOutcome' = Outcome(ContinueOwner, "returned", Last(messages).id)
          /\ ~isRunning' /\ pc' = "idle"
          /\ llmCallsThisLoop' = 0
          /\ llmResponses' = llmResponses

\* C28 (as claimed): ReturnsAtOnce, and whenever run or continue returns
\* normally, continue()'s return of '' while running included, the log ends
\* with an assistant message whose text is the value returned.
C28_ReturnIsLastAssistantText ==
    [][/\ ReturnsAtOnce
       /\ (Settles("returned") \/ Settles("empty"))
             => /\ Last(messages').role = "assistant"
                /\ Settles("returned") => Last(messages').id = lastOutcome'.val]_vars

\* C28 (amended): ReturnsAtOnce, and whenever a loop invocation returns
\* normally the log ends with an assistant message whose text is the value
\* returned.
C28_LoopReturnIsLastAssistantText ==
    [][/\ ReturnsAtOnce
       /\ Settles("returned")
             => /\ Last(messages').role = "assistant"
                /\ Last(messages').id = lastOutcome'.val]_vars

\* a continue() that found the log ending on a completion's answer, nothing
\* ever steered, and returned it without a completion call
C28_Witness ==
    /\ ~isRunning
    /\ lastOutcome.owner = ContinueOwner
    /\ lastOutcome.kind = "returned"
    /\ llmCallsThisLoop = 0
    /\ steerCalls = 0
    /\ Last(messages).src = "llm"
    /\ lastOutcome.val = Last(messages).id

\* the for loop over the tool calls of the last response is under way
InBatch == pc \in {"tool", "toolDone"}
\* tool calls of the response whose tool message has been appended
CallsAnswered == IF pc = "tool" THEN toolIdx - 1 ELSE toolIdx
\* message msg is element j of the block made of the assistant message of
\* the response and one tool message per call, in request order
InBlock(msg, j) ==
    IF j = 1
    THEN msg = AssistantMsg(respCalls.aid, respCalls.calls)
    ELSE /\ msg.role = "tool"
         /\ msg.ref = <<respCalls.aid, j - 1>>
         /\ msg.name = respCalls.calls[j - 1]
\* the log ends with the block up to the calls answered so far, or, the log
\* having been cleared meanwhile, consists of the system message and the
\* part of that block appended since
BlockAtTail ==
    LET n == CallsAnswered + 1
    IN  \E m \in 0..n :
           /\ Len(messages) >= m + 1
           /\ \A j \in 1..m : InBlock(messages[Len(messages) - m + j], n - m + j)
           /\ m = n \/ Len(messages) = m + 1

\* C29: from the append of an assistant message carrying k tool calls to the
\* next steering check, the log is appended with the tool messages of calls
\* 1..k only, in request order and each with the id and name of its call;
\* no completion is requested, nothing is taken from the steering queue, and
\* the steering check comes after the k-th tool message.
C29_ToolResultsFollowTheirCalls ==
    /\ [](InBatch => BlockAtTail)
    /\ [][InBatch /\ InBatch'
            => /\ llmResponses' = llmResponses
               /\ respCalls' = respCalls
               /\ \/ steeringQueue' = steeringQueue
                  \/ steeringQueue' = <<>>
                  \/ \E r \in SteerRoles :
                        steeringQueue' = Append(steeringQueue, SteerMsg(r, steerCalls'))
               /\ Len(messages') > Len(messages)
                     => /\ messages' = Append(messages, Last(messages'))
                        /\ InBlock(Last(messages'), toolIdx' + 1)]_vars
    /\ [][InBatch /\ ~InBatch'
            => /\ pc = "toolDone"
               /\ toolIdx = Len(respCalls.calls)]_vars

\* a message steered while the loop was running sits right after the two
\* tool messages of a response of two calls, the next completion requested
C29_Witness ==
    /\ pc = "llm"
    /\ Len(respCalls.calls) = 2
    /\ Len(messages) >= 5
    /\ Last(messages).src = "steer"
    /\ Last(messages).id \in steeredDuring
    /\ messages[Len(messages) - 1].ref = <<respCalls.aid, 2>>
    /\ messages[Len(messages) - 2].ref = <<respCalls.aid, 1>>
    /\ messages[Len(messages) - 3] = AssistantMsg(respCalls.aid, respCalls.calls)

\* --------------------------------------------------------- Watcher claims
\* a processFile activation for item f begins in this step
Begins(f) == pfPc[f] = "idle" /\ pfPc'[f] # "idle"
\* the handler is invoked for item f in this step
Handled(f) == handlerCalls'[f] = handlerCalls[f] + 1

\* C21: while the Watcher is stopped none of its interval timers is live, no
\* debounce timer is pending, and no processFile activation begins.
C21_StopDisarmsEverything ==
    /\ [](~watcherArmed => (scanIntervals = 0 /\ notify = {}))
    /\ [][\A f \in Items : Begins(f) => watcherArmed]_vars

\* C22: once the handler has completed for an item (its Task Result is
\* recorded) the item is marked done at once and a deletion is attempted;
\* when its processing is over and no I/O fault met it, it is gone from the
\* pending store; and the handler is never invoked for a done item again.
C22_DoneItemsNeverHandledAgain ==
    /\ [](\A f \in Items :
            results[f] >= 1
               => /\ f \in processed
                  /\ deleteAttempts[f] >= 1
                  /\ (pfPc[f] = "idle" /\ f \notin ioFaults) => f \notin pendingFiles)
    /\ [][\A f \in Items : f \in processed => ~Handled(f)]_vars

\* an item handled once whose deletion failed: done, still in the store,
\* its processing over
C22_Witness ==
    \E f \in Items :
       /\ results[f] = 1
       /\ handlerCalls[f] = 1
       /\ f \in processed
       /\ f \in pendingFiles
       /\ errorEvents[f] = 1
       /\ pfPc[f] = "idle"

\* the item was gone when the existence check of processFile ran
GoneAtCheck(f) ==
    /\ f \in notify /\ f \notin notify'
    /\ f \notin pendingFiles
    /\ ~SkipFile(f)
\* the item was gone when the read of a begun activation settled
GoneAtRead(f) ==
    /\ pfPc[f] = "read" /\ pfPc'[f] # "read"
    /\ f \notin pendingFiles

\* C23 (as claimed): an item that is gone when its processing begins gets no
\* handler invocation and no error event, and is marked done.
C23_GoneItemMarkedDone ==
    [][\A f \in Items :
          (GoneAtCheck(f) \/ GoneAtRead(f))
             => /\ ~Handled(f)
                /\ errorEvents'[f] = errorEvents[f]
                /\ f \in processed']_vars

\* C23 (amended): such an item gets no handler invocation and no error
\* event; it is marked done when it vanished after the existence check (the
\* read fails with ENOENT), and left unmarked, no activation begun, when the
\* existence check already misses it.
C23_GoneItemNotHandled ==
    [][\A f \in Items :
          /\ GoneAtCheck(f)
                => /\ ~Handled(f)
                   /\ errorEvents'[f] = errorEvents[f]
                   /\ processed' = processed
                   /\ pfPc'[f] = "idle"
          /\ GoneAtRead(f)
                => /\ ~Handled(f)
                   /\ errorEvents'[f] = errorEvents[f]
                   /\ f \in processed'
                   /\ pfPc'[f] = "idle"]_vars

\* an item marked done without any handler invocation or error event
C23_Witness ==
    \E f \in Items :
       /\ f \in processed
       /\ handlerCalls[f] = 0
       /\ errorEvents[f] = 0
       /\ f \notin pendingFiles
       /\ pfPc[f] = "idle"

\* the handler, invoked for f in this step, steers one user-role message for
\* f and calls continue() exactly when the Agent is not running
Delegates(f) ==
    LET m == SteerMsg("user", steerCalls + 1)
    IN  /\ steerCalls' = steerCalls + 1
        /\ steeredFor' = [steeredFor EXCEPT ![f] = @ \cup {m.id}]
        /\ results' = results
        /\ IF isRunning
           THEN /\ steeringQueue' = Append(steeringQueue, m)
                /\ <<messages, isRunning, pc, owner, lastOutcome>>'
                      = <<messages, isRunning, pc, owner, lastOutcome>>
                /\ pfPc'[f] = "record"
           ELSE /\ \/ steeringQueue' = Append(steeringQueue, m)
                   \/ /\ steeringQueue' = Tail(Append(steeringQueue, m))
                      /\ messages' = Append(messages, Head(Append(steeringQueue, m)))
                /\ \/ owner' = HandlerOwner(f) /\ isRunning' /\ pfPc'[f] = "agent"
                   \/ /\ lastOutcome'.owner = HandlerOwner(f)
                      /\ lastOutcome'.n = lastOutcome.n + 1
                      /\ ~isRunning'

\* C27: each invocation of the handler steers exactly one user-role message
\* for its item and calls continue() if and only if the Agent is not running
\* at that moment; a Task Result is recorded once per invocation, after the
\* delegation is over and only when continue() did not throw.
C27_HandlerDelegatesThenRecords ==
    /\ [][\A f \in Items : Handled(f) => Delegates(f)]_vars
    /\ [][\A f \in Items :
             /\ results'[f] # results[f]
                   => results'[f] = results[f] + 1 /\ pfPc[f] = "record"
             /\ (pfPc[f] = "agent" /\ pfPc'[f] = "record")
                   => /\ lastOutcome'.owner = HandlerOwner(f)
                      /\ lastOutcome'.kind = "returned"
                      /\ lastOutcome'.n = lastOutcome.n + 1]_vars
    /\ [](\A f \in Items :
             /\ pfPc[f] = "record" => owner # HandlerOwner(f)
             /\ pfPc[f] = "agent" => owner = HandlerOwner(f)
             /\ results[f] + handlerFailures[f]
                   = handlerCalls[f] - (IF pfPc[f] \in {"agent", "record"} THEN 1 ELSE 0))

\* one item delegated with continue(), whose loop returned, and another
\* steered while that loop was running; one Task Result for each
C27_Witness ==
    \E f, g \in Items :
       /\ f # g
       /\ lastOutcome.owner = HandlerOwner(f)
       /\ lastOutcome.kind = "returned"
       /\ steeredFor[g] \cap steeredDuring # {}
       /\ \A h \in {f, g} : results[h] = 1 /\ handlerCalls[h] = 1

\* the unlink of item f settles in this step
UnlinkSettles(f) == pfPc[f] = "unlink" /\ pfPc'[f] # "unlink"

\* C31: after the handler succeeded, an unlink that finds the item gone is
\* swallowed, the item done and 'processed' emitted; an unlink failing with
\* another error emits 'error' and no 'processed'; either way the item stays
\* marked done and the handler is not invoked for it again.
C31_DeleteErrors ==
    /\ [][\A f \in Items :
             UnlinkSettles(f)
                => /\ f \in processed /\ f \in processed'
                   /\ pfPc'[f] = "idle"
                   /\ IF faults' = faults
                      THEN /\ processedEvents'[f] = processedEvents[f] + 1
                           /\ errorEvents'[f] = errorEvents[f]
                           /\ f \notin pendingFiles'
                      ELSE /\ errorEvents'[f] = errorEvents[f] + 1
                           /\ processedEvents'[f] = processedEvents[f]]_vars
    /\ [][\A f \in Items :
             (f \in processed /\ deleteAttempts[f] >= 1) => ~Handled(f)]_vars

\* an item removed by another actor while its handler ran: handled once,
\* 'processed' emitted, no error event
C31_Witness ==
    \E f \in Items :
       /\ f \in ioFaults
       /\ results[f] = 1
       /\ handlerCalls[f] = 1
       /\ handlerFailures[f] = 0
       /\ processedEvents[f] = 1
       /\ errorEvents[f] = 0
       /\ f \in processed
       /\ pfPc[f] = "idle"

\* C36: no Pending Work Item has more than one message steered for it.
C36_OneSteerPerItem ==
    \A f \in Items : Cardinality(steeredFor[f]) <= 1

\* ------------------------------------------------------- Scheduler claims
Idle == \A a \in 1..MaxInFlight : ticks[a].stage = "idle"
\* task i is fired (triggerTask is invoked for it) in this step
Fires(i) == fired'[i] = fired[i] + 1
\* the tick timer fires in this step
TickStarts == lastTickAt' # lastTickAt
\* The passes over the task map made in this step: from the first task when
\* a tick starts, from the task after the one just written when an
\* activation resumes; tn is the activation's `now`.
LoopStart ==
    IF TickStarts
    THEN {[from |-> 1, tn |-> now]}
    ELSE {[from |-> ticks[a].idx + 1, tn |-> ticks[a].tickNow] :
            a \in {b \in 1..MaxInFlight :
                     /\ ticks[b].stage = "write"
                     /\ ticks'[b] # ticks[b]
                     /\ schedFaults' = schedFaults}}
\* the pass does not stop at task j: absent, disabled or not yet due
PassedOver(j, tn) ==
    \/ ~tasks[j].present
    \/ ~tasks[j].enabled
    \/ tasks[j].nextRun = NoTime
    \/ tasks[j].nextRun > tn

\* C13: an enabled one-shot (scheduled) task whose trigger.at is not after
\* the tick's time is fired by the pass of the tick that reaches it, its
\* nextRun is absent afterwards, and it is never fired a second time.
C13_OneShotFiresOnce ==
    /\ [](\A i \in 1..MaxTasks :
            (tasks[i].present /\ tasks[i].type = "scheduled" /\ fired[i] >= 1)
               => (fired[i] = 1 /\ tasks[i].nextRun = NoTime))
    /\ [][\A L \in LoopStart : \A i \in L.from..MaxTasks :
            (/\ tasks[i].present
             /\ tasks[i].enabled
             /\ tasks[i].type = "scheduled"
             /\ tasks[i].at # NoTime
             /\ tasks[i].at <= L.tn
             /\ fired[i] = 0
             /\ \A j \in L.from..(i - 1) : PassedOver(j, L.tn))
            => (Fires(i) /\ tasks'[i].nextRun = NoTime)]_vars

\* a one-shot task that fired, with a later tick that left it alone
C13_Witness ==
    \E i \in 1..MaxTasks :
       /\ tasks[i].present
       /\ tasks[i].enabled
       /\ tasks[i].type = "scheduled"
       /\ fired[i] = 1
       /\ tasks[i].nextRun = NoTime
       /\ lastTickAt > tasks[i].lastRun

\* C14: a task with maxRuns >= 1 is fired at most maxRuns times, and its
\* runCount counts its firings.
C14_MaxRunsBound ==
    \A i \in 1..MaxTasks :
       (tasks[i].present /\ tasks[i].maxRuns >= 1)
          => (fired[i] <= tasks[i].maxRuns /\ tasks[i].runCount = fired[i])

\* a task at its maxRuns, enabled and due, that a completed later tick left
\* alone
C14_Witness ==
    \E i \in 1..MaxTasks :
       /\ tasks[i].present
       /\ tasks[i].enabled
       /\ tasks[i].maxRuns = 1
       /\ tasks[i].runCount = 1
       /\ tasks[i].nextRun # NoTime
       /\ tasks[i].nextRun <= lastTickAt
       /\ lastTickAt > tasks[i].lastRun
       /\ Idle
       /\ schedFaults = 0

\* C15: in the step that fires a recurring task its nextRun becomes absent
\* or strictly later than the fire time, whatever its trigger descriptor.
C15_RecurringNextRunRecomputed ==
    [][\A i \in 1..MaxTasks :
          (Fires(i) /\ tasks[i].type = "recurring")
             => (tasks'[i].nextRun = NoTime \/ tasks'[i].nextRun > now)]_vars

\* The earliest instant strictly after t with seconds and milliseconds zero
\* and a minute-of-hour that is a multiple of n.
NextBoundary(n, t) ==
    LET base == t - (t % 60000)
    IN  base + 60000 * Min({k \in 1..60 : (((base \div 60000) + k) % 60) % n = 0})

\* C16: a task created with the recurrence "*/N" (N >= 1) alone gets as
\* nextRun the earliest instant strictly after the creation time whose
\* seconds and milliseconds are zero and whose minute is a multiple of N.
C16_StepBoundary ==
    \A i \in 1..MaxTasks :
       (/\ tasks[i].present
        /\ tasks[i].at = NoTime
        /\ tasks[i].cron.form = "step"
        /\ tasks[i].cron.n >= 1
        /\ fired[i] = 0
        /\ timeSteps = 0)
       => tasks[i].nextRun = NextBoundary(tasks[i].cron.n, now)

C18_OneItemPerFiring ==
    (Idle /\ schedFaults = 0)
       => \A i \in 1..MaxTasks :
             tasks[i].present
                => (itemsFor[i] = tasks[i].runCount /\ itemsFor[i] = fired[i])

\* a task fired twice, both items written
C18_Witness ==
    /\ Idle
    /\ schedFaults = 0
    /\ \E i \in 1..MaxTasks :
          tasks[i].present /\ tasks[i].runCount = 2 /\ itemsFor[i] = 2

\* C19: a task is fired only when it is enabled and its nextRun is present
\* and not later than now; a task whose toggleTask(id, false) has completed
\* is not fired until it is enabled again.
C19_OnlyEnabledDueTasksFire ==
    [][\A i \in 1..MaxTasks :
          Fires(i) => /\ tasks[i].enabled
                      /\ tasks[i].nextRun # NoTime
                      /\ tasks[i].nextRun <= now
                      /\ i \notin toggledOff]_vars

\* a due task whose toggleTask(id, false) has completed, never fired although
\* a tick ran after it became due
C19_Witness ==
    \E i \in toggledOff :
       /\ tasks[i].present
       /\ ~tasks[i].enabled
       /\ tasks[i].nextRun # NoTime
       /\ lastTickAt >= tasks[i].nextRun
       /\ fired[i] = 0
       /\ Idle
       /\ schedFaults = 0

\* C20: at most one tick timer is live, it is live exactly when
\* checkInterval is set, start() while started changes nothing, and no task
\* is fired while the Scheduler is stopped.
C20_OneTimerNoFiringWhenStopped ==
    /\ [](tickTimers <= 1 /\ (checkInterval <=> tickTimers = 1))
    /\ [][(SchedulerStart /\ checkInterval)
            => UNCHANGED <<checkInterval, tickTimers, armedAt, lastTickAt>>]_vars
    /\ [][\A i \in 1..MaxTasks : Fires(i) => checkInterval]_vars

\* the saveTask of activation a resolves / rejects in this step
PersistDone(a) == ticks[a].stage = "save" /\ ticks'[a].stage = "write"
PersistFails(a) == ticks[a].stage = "save" /\ ticks'[a].stage = "idle"
\* firings of task i whose triggerTask is suspended on one of its writes
InFlight(i) ==
    Cardinality({a \in 1..MaxInFlight : ticks[a].stage # "idle" /\ ticks[a].idx = i})

\* C30: an item is written only by an activation whose saveTask has
\* resolved, the store then holding the task as triggerTask updated it; when
\* saveTask rejects no item is written for that firing and nothing of the
\* in-memory task is taken back: it keeps the run count, lastRun and nextRun
\* that triggerTask set, so later ticks see the firing as made.
C30_PersistBeforeItemNoRollback ==
    /\ [][\A a \in 1..MaxInFlight :
             /\ PersistDone(a)
                   => /\ taskStore'[ticks[a].idx] = ticks[a].snap
                      /\ itemsFor' = itemsFor
             /\ PersistFails(a)
                   => /\ itemsFor' = itemsFor
                      /\ taskStore' = taskStore
                      /\ tasks' = tasks
                      /\ fired' = fired
                      /\ tasks'[ticks[a].idx].runCount >= ticks[a].snap.runCount]_vars
    /\ [][\A i \in 1..MaxTasks :
             itemsFor'[i] # itemsFor[i]
                => /\ itemsFor'[i] = itemsFor[i] + 1
                   /\ \E a \in 1..MaxInFlight :
                         ticks[a].stage = "write" /\ ticks[a].idx = i]_vars
    /\ [](\A i \in 1..MaxTasks :
             /\ tasks[i].present => tasks[i].runCount = fired[i]
             /\ itemsFor[i] + InFlight(i) <= fired[i])

\* a one-shot task fired once whose saveTask was rejected: no item, the store
\* still at run count 0, the task in memory at run count 1 with no nextRun,
\* and a later tick has passed it over
C30_Witness ==
    \E i \in 1..MaxTasks :
       /\ tasks[i].present /\ tasks[i].enabled
       /\ tasks[i].type = "scheduled"
       /\ fired[i] = 1
       /\ itemsFor[i] = 0
       /\ tasks[i].runCount = 1
       /\ tasks[i].nextRun = NoTime
       /\ taskStore[i].present /\ taskStore[i].runCount = 0
       /\ schedFaults = 1
       /\ Idle
       /\ lastTickAt > tasks[i].lastRun

\* C32: a task created with maxRuns = 0 is never fired.
C32_MaxRunsZeroNeverFires ==
    [][\A i \in 1..MaxTasks : Fires(i) => tasks[i].maxRuns # 0]_vars

\* an earlier firing of task i is still suspended on one of its writes
StillFiring(i) ==
    \E a \in 1..MaxInFlight : ticks[a].stage # "idle" /\ ticks[a].idx = i

\* C35: a firing updates lastRun, runCount and nextRun in the step that
\* makes it, before its first suspension; and a task fired while an earlier
\* firing of it is still suspended is fired for a nextRun later than that
\* earlier firing, never for the same due nextRun.
C35_NoDoubleFiringAcrossTicks ==
    [][\A i \in 1..MaxTasks :
          Fires(i)
             => /\ tasks'[i] = TriggerTask(tasks[i], now)
                /\ \E a \in 1..MaxInFlight :
                      /\ ticks'[a].stage = "save"
                      /\ ticks'[a].idx = i
                      /\ ticks'[a].snap = tasks'[i]
                /\ StillFiring(i) => tasks[i].nextRun > tasks[i].lastRun]_vars

\* the write of a createTask or toggleTask call fails in this step
SaveFails(s) == s \in pendingSaves /\ s \notin pendingSaves' /\ schedFaults' > schedFaults
\* the creation of task i is persisted or its write is still under way
CreationStands(i) ==
    \/ taskStore[i].present
    \/ \E s \in pendingSaves : s.op = "create" /\ s.id = i

\* C37: when the write of createTask fails the task is not in the in-memory
\* map afterwards and is never fired; when the write of toggleTask fails
\* the in-memory enabled flag is the persisted one.
C37_FailedPersistLeavesMemoryAsBefore ==
    /\ [][\A s \in pendingSaves :
             SaveFails(s)
                => /\ s.op = "create" => ~tasks'[s.id].present
                   /\ (s.op = "toggle" /\ taskStore[s.id].present)
                         => tasks'[s.id].enabled = taskStore[s.id].enabled]_vars
    /\ [][\A i \in 1..MaxTasks : Fires(i) => CreationStands(i)]_vars

\* C34: once a deleteTask(id) that found the task persisted has resolved and
\* no tick and no other write of the Scheduler is in flight, the task is in
\* neither the in-memory map nor the task store; and no item is written for
\* it from a state with no tick in flight.
C34_DeletedTaskIsGone ==
    /\ [](\A id \in 1..MaxTasks :
             (deleted[id] = "unlinked" /\ Idle /\ pendingSaves = {})
                => (~tasks[id].present /\ ~taskStore[id].present))
    /\ [][\A id \in 1..MaxTasks :
             (deleted[id] = "unlinked" /\ Idle) => itemsFor'[id] = itemsFor[id]]_vars

\* C33: with autoStart = false and no start() call made, the Scheduler's tick
\* is not armed, no task has been fired and no item written.
C33_NoAutoStartNoScheduler ==
    [](~autoStart /\ proStarts = 0
          => /\ ~checkInterval
             /\ tickTimers = 0
             /\ \A i \in 1..MaxTasks : fired[i] = 0 /\ itemsFor[i] = 0)

\* C38: whenever the initialised ProactiveAgent is running, after a stop()
\* followed by a start() included, the Watcher and the Scheduler's tick are
\* both armed.
C38_RestartArmsBoth ==
    [](proInited /\ proIsRunning => watcherArmed /\ checkInterval /\ tickTimers = 1)

\* ------------------------------------------------- SessionManager claims
\* C39: every session in the map whose status is not closed has an Agent,
\* and no sendMessage is rejected for want of an Agent.
C39_OpenSessionHasAgent ==
    /\ \A s \in Sessions :
          (InMap(s) /\ sessStatus[s] # "closed") => s \in sessAgents
    /\ \A c \in DOMAIN sends : sends[c].thrown # "noAgent"

\* C40: a sendMessage call that emitted stream:start has emitted no
\* stream:end while its run is pending and exactly one once the run has
\* settled; when the run threw, 'error' was emitted once, the call rejected
\* with the error of the run and no assistant message was pushed.
C40_StreamEndsOnce ==
    \A c \in DOMAIN sends :
       sends[c].started
          => /\ sends[c].stage = "run" => sends[c].ends = 0
             /\ sends[c].stage # "run" => sends[c].ends = 1
             /\ sends[c].stage = "threw"
                   => /\ sends[c].errors = 1
                      /\ sends[c].thrown = "run"
                      /\ ~sends[c].appended

\* ------------------------------------------------------------------ spec
\* The Agent and the PendingWatcher after construction.
InitAgentWatcher ==
    /\ messages = <<SystemMsg>>
    /\ steeringQueue = <<>>
    /\ isRunning = FALSE
    /\ tools = InitTools
    /\ pendingToolCalls = <<>>
    /\ pc = "idle"
    /\ iterations = 0
    /\ respCalls = [aid |-> 0, calls |-> <<>>]
    /\ toolIdx = 0
    /\ owner = NoOwner
    /\ waiting = {}
    /\ polled = {}
    /\ runCalls = 0
    /\ steerCalls = 0
    /\ llmResponses = 0
    /\ events = 0
    /\ lastOutcome = NoOutcome
    /\ llmCallsThisLoop = 0
    /\ steeredDuring = {}
    /\ raisedAlreadyRunning = FALSE
    /\ llmFailed = FALSE
    /\ pendingFiles = {}
    /\ itemsWritten = 0
    /\ watcherArmed = FALSE
    /\ scanIntervals = 0
    /\ notify = {}
    /\ processing = {}
    /\ processed = {}
    /\ pfPc = [f \in Items |-> "idle"]
    /\ procPath = [f \in Items |-> "none"]
    /\ dupSkipped = {}
    /\ handlerCalls = [f \in Items |-> 0]
    /\ handlerFailures = [f \in Items |-> 0]
    /\ deleteAttempts = [f \in Items |-> 0]
    /\ errorEvents = [f \in Items |-> 0]
    /\ processedEvents = [f \in Items |-> 0]
    /\ results = [f \in Items |-> 0]
    /\ steeredFor = [f \in Items |-> {}]
    /\ ioFaults = {}
    /\ faults = 0
    /\ toggles = 0

\* The Scheduler after construction (not started), or after init(), which
\* ends with start().
InitSched(started) ==
    /\ now = StartClock
    /\ timeSteps = 0
    /\ tasks = [i \in 1..MaxTasks |-> NoTask]
    /\ created = 0
    /\ checkInterval = started
    /\ tickTimers = (IF started THEN 1 ELSE 0)
    /\ armedAt = StartClock
    /\ lastTickAt = NoTime
    /\ ticks = [a \in 1..MaxInFlight |-> NoAct]
    /\ pendingSaves = {}
    /\ taskStore = [i \in 1..MaxTasks |-> NoTask]
    /\ itemsFor = [i \in 1..MaxTasks |-> 0]
    /\ fired = [i \in 1..MaxTasks |-> 0]
    /\ toggledOff = {}
    /\ schedFaults = 0
    /\ schedOps = 0

\* No deleteTask call made yet.
InitDel ==
    /\ pendingUnlinks = {}
    /\ deleted = [i \in 1..MaxTasks |-> "no"]

\* The ProactiveAgent after construction with config.autoStart = auto.
InitCoord(auto) ==
    /\ autoStart = auto
    /\ proIsRunning = FALSE
    /\ proInited = FALSE
    /\ proStarts = 0
    /\ proCalls = 0

\* The SessionManager after construction and init() on an empty data
\* directory; listening: whether the embedding registered an 'error' listener.
InitSess(listening) ==
    /\ sessStatus = [s \in Sessions |-> "none"]
    /\ sessAgents = {}
    /\ activeSessionId = 0
    /\ sessMessages = [s \in Sessions |-> <<>>]
    /\ closing = {}
    /\ sends = <<>>
    /\ errorListener = listening
    /\ sessOps = 0

InitRest == InitDel /\ InitCoord(TRUE) /\ InitSess(FALSE)

Init == InitAgentWatcher /\ InitSched(FALSE) /\ InitRest

InitScheduler ==
    /\ InitAgentWatcher
    /\ \E started \in BOOLEAN : InitSched(started)
    /\ InitRest

\* The Agent driven through its public interface by the environment.
Next ==
    \/ RunCall
    \/ \E u \in 1..MaxEvents : RunPoll(u)
    \/ \E r \in SteerRoles : Steer(r)
    \/ ContinueCall
    \/ Clear
    \/ LLMFails
    \/ LLMFinal
    \/ \E cs \in CallSeqs : LLMToolCalls(cs)
    \/ \E k \in {"result", "error"} : ToolSettles(k)
    \/ ToolLoopNext

Spec == Init /\ [][Next]_vars

\* The proactive pipeline: pending items, the Watcher, the Coordinator's
\* handler and the Agent, with run() calls of a user alongside.
NextPipeline ==
    \/ WatcherStart
    \/ WatcherStop
    \/ WriteItem
    \/ \E f \in Items : ScanDiscover(f)
    \/ \E f \in Items : NotifyDiscover(f)
    \/ \E f \in Items : ReadDone(f)
    \/ \E f \in Items : ReadBad(f)
    \/ \E f \in Items : RecordDone(f)
    \/ \E f \in Items : \E code \in {"ENOENT", "EACCES"} : RecordFails(f, code)
    \/ \E f \in Items : UnlinkDone(f)
    \/ \E f \in Items : UnlinkFails(f)
    \/ \E f \in Items : ExternalDelete(f)
    \/ RunCall
    \/ \E u \in 1..MaxEvents : RunPoll(u)
    \/ LLMFails
    \/ LLMFinal
    \/ \E cs \in CallSeqs : LLMToolCalls(cs)
    \/ \E k \in {"result", "error"} : ToolSettles(k)
    \/ ToolLoopNext

SpecPipeline == Init /\ [][NextPipeline]_vars

\* The Agent with responses of several tool calls and registerTool calls.
NextTools ==
    \/ RunCall
    \/ \E u \in 1..MaxEvents : RunPoll(u)
    \/ \E r \in SteerRoles : Steer(r)
    \/ ContinueCall
    \/ Clear
    \/ \E nm \in ToolNames : RegisterTool(nm)
    \/ LLMFails
    \/ LLMFinal
    \/ \E cs \in BatchSeqs : LLMToolCalls(cs)
    \/ \E k \in {"result", "error"} : ToolSettles(k)
    \/ ToolLoopNext

SpecTools == Init /\ [][NextTools]_vars

\* The Scheduler driven by its callers, the clock and its tick timer.
NextScheduler ==
    \/ \E d \in {TickPeriod, 60000} : TimePasses(d)
    \/ SchedulerStart
    \/ SchedulerStop
    \/ \E def \in TaskDefs : CreateTask(def)
    \/ \E id \in 1..MaxTasks : \E en \in BOOLEAN : ToggleTask(id, en)
    \/ \E s \in pendingSaves : OpDone(s)
    \/ \E s \in pendingSaves : OpFails(s)
    \/ Tick
    \/ \E a \in 1..MaxInFlight : SaveDone(a)
    \/ \E a \in 1..MaxInFlight : WriteDone(a)
    \/ \E a \in 1..MaxInFlight : TickWriteFails(a)

SpecScheduler == InitScheduler /\ [][NextScheduler]_vars

\* The started Scheduler with deleteTask calls, its writes succeeding.
NextDelete ==
    \/ \E d \in {TickPeriod, 60000} : TimePasses(d)
    \/ \E def \in TaskDefs : CreateTask(def)
    \/ \E id \in 1..MaxTasks : DeleteTask(id)
    \/ \E id \in 1..MaxTasks : UnlinkTaskDone(id)
    \/ \E s \in pendingSaves : OpDone(s)
    \/ Tick
    \/ \E a \in 1..MaxInFlight : SaveDone(a)
    \/ \E a \in 1..MaxInFlight : WriteDone(a)

InitDelete == InitAgentWatcher /\ InitSched(TRUE) /\ InitRest

SpecDelete == InitDelete /\ [][NextDelete]_vars

\* The ProactiveAgent's init/start/stop with one-shot tasks and the
\* Scheduler's ticks.
NextProactive ==
    \/ ProInit
    \/ ProStart
    \/ ProStop
    \/ \E d \in {TickPeriod, 60000} : TimePasses(d)
    \/ \E def \in {d \in TaskDefs : d.type = "scheduled"} : CreateTask(def)
    \/ \E s \in pendingSaves : OpDone(s)
    \/ Tick
    \/ \E a \in 1..MaxInFlight : SaveDone(a)
    \/ \E a \in 1..MaxInFlight : WriteDone(a)

InitProactive ==
    /\ InitAgentWatcher
    /\ InitSched(FALSE)
    /\ InitDel
    /\ \E auto \in BOOLEAN : InitCoord(auto)
    /\ InitSess(FALSE)

SpecProactive == InitProactive /\ [][NextProactive]_vars

\* The SessionManager driven through its public interface, with the
\* settlements of the Agent runs it awaits.
NextSessions ==
    \/ \E s \in Sessions : CreateSession(s)
    \/ \E s \in Sessions : ActivateSession(s)
    \/ \E s \in Sessions : PauseSession(s)
    \/ \E s \in Sessions : CloseSession(s)
    \/ \E s \in Sessions : DeleteSession(s)
    \/ \E s \in Sessions : DeleteCont(s)
    \/ \E s \in Sessions : SendMessage(s)
    \/ \E c \in 1..MaxSends : RunReturns(c)
    \/ \E c \in 1..MaxSends : RunThrows(c)

InitSessions ==
    /\ InitAgentWatcher
    /\ InitSched(FALSE)
    /\ InitDel
    /\ InitCoord(TRUE)
    /\ \E listening \in BOOLEAN : InitSess(listening)

SpecSessions == InitSessions /\ [][NextSessions]_vars

\* Instants of one hour: every minute, at three offsets within the minute.
CronInstants ==
    {3600000 + m * 60000 + ms : m \in 0..59, ms \in {0, 30500, 59999}}

InitCron ==
    /\ InitAgentWatcher
    /\ InitRest
    /\ \E t \in CronInstants :
          /\ now = t
          /\ armedAt = t
    /\ timeSteps = 0
    /\ tasks = [i \in 1..MaxTasks |-> NoTask]
    /\ created = 0
    /\ checkInterval = FALSE
    /\ tickTimers = 0
    /\ lastTickAt = NoTime
    /\ ticks = [a \in 1..MaxInFlight |-> NoAct]
    /\ pendingSaves = {}
    /\ taskStore = [i \in 1..MaxTasks |-> NoTask]
    /\ itemsFor = [i \in 1..MaxTasks |-> 0]
    /\ fired = [i \in 1..MaxTasks |-> 0]
    /\ toggledOff = {}
    /\ schedFaults = 0
    /\ schedOps = 0

\* The recurrence evaluator applied by createTask to "*/N" at any instant.
NextCron ==
    \E n \in 1..MaxInterval :
       CreateTask([type |-> "recurring", at |-> NoTime, cron |-> CronEvery(n),
                   enabled |-> TRUE, maxRuns |-> NoMax])

SpecCron == InitCron /\ [][NextCron]_vars
====
